---- MODULE Spec2Model ----
(***************************************************************************)
(* PesoMed / DoseCheck: the scheduling, checklist, consistency and trend   *)
(* core of src/app.js, as a state machine over the record store, the       *)
(* settings record and the wall clock.                                     *)
(*                                                                         *)
(* Time.  An instant is an integer number of minutes of local wall-clock   *)
(* time (no DST transition inside the modelled window).  A date key        *)
(* 'YYYY-MM-DD' is represented by the ordinal of its calendar day, so the  *)
(* lexicographic order of keys is the order of ordinals.  Day 0 is a       *)
(* Thursday, as 1970-01-01 is.  Weights are in tenths of a kilogram.       *)
(*                                                                         *)
(* Numbers of the settings.  The weekday and cadence values of a settings  *)
(* object come from forms and backup files and need not be whole, so they  *)
(* are held in halves: N(6) is the number 6 and N(2) + 1 is 2.5.           *)
(*                                                                         *)
(* Rendering to the DOM is outside the model: a computation's result is    *)
(* the value it returns, kept in out until the state changes.              *)
(***************************************************************************)
EXTENDS Integers, Sequences, FiniteSets, TLC

VARIABLES
    clock,        \* now(): the current instant
    weights,      \* object store STORE_WEIGHTS: set of records, keyed by id
    injections,   \* object store STORE_INJECTIONS
    measures,     \* object store STORE_MEASURES
    settings,     \* the value getSettings() returns (stored value over DEFAULTS)
    out,          \* the value returned by the last computation called
    autoBackups,  \* object store STORE_AUTO_BACKUPS
    ticker,       \* checklistIntervalId, the intervals that are set, the route shown
    render,       \* the renderDashboardChecklist in progress: position and locals
    saves         \* the saveSettings calls in progress: argument and what they read

vars == <<clock, weights, injections, measures, settings, out,
          autoBackups, ticker, render, saves>>

\* what the backups, the ticker and the calls in progress hold
background == <<autoBackups, ticker, render, saves>>

----------------------------------------------------------------------------
(* Bounds of the model *)

MaxRecords == 2     \* records in the three stores together
MaxDay == 1         \* the last day the clock reaches (day 0 is the first)

----------------------------------------------------------------------------
(* Constants of the program *)

DefaultMaxLookbackDays == 120
DefaultMaxWeeks == 52

----------------------------------------------------------------------------
(* Small helpers *)

Min(a, b) == IF a < b THEN a ELSE b
Max(a, b) == IF a > b THEN a ELSE b

None == <<>>
Some(x) == <<x>>

----------------------------------------------------------------------------
(* Date utilities *)

MinutesPerDay == 24 * 60

HHmm(hh, mi) == hh * 60 + mi

getLocalDateKey(date) == date \div MinutesPerDay

getDay(date) == (getLocalDateKey(date) + 4) % 7

startOfDay(date) == getLocalDateKey(date) * MinutesPerDay

addDays(date, days) == date + days * MinutesPerDay

parseDateKeyToLocalDate(dateKey, timeHHmm) ==
    dateKey * MinutesPerDay + HHmm(timeHHmm[1], timeHHmm[2])

compareDateKeys(a, b) == IF a = b THEN 0 ELSE IF a < b THEN -1 ELSE 1

startOfWeekMonday(date) ==
    LET d == startOfDay(date)
        mondayIndex == (getDay(d) + 6) % 7
    IN addDays(d, -mondayIndex)

\* the number x, in halves
N(x) == 2 * x

\* Math.floor of a number held in halves
floorNum(v) == N(v \div 2)

\* the whole number v as a count of days
daysOf(v) == v \div 2

clampNumber(value, min, max) == Min(max, Max(min, value))

----------------------------------------------------------------------------
(* Settings *)

\* reminderDow is '' (None here) or a number; times 'HH:mm' are held as <<HH, mm>>
DEFAULTS ==
    [ reminderDow |-> None,
      reminderTime |-> <<19, 0>>,
      injectionDayOfWeek |-> N(6),
      injectionTime |-> <<9, 51>>,
      weighDaysOfWeek |-> {N(1), N(3), N(5)},
      measureReminderEveryDays |-> N(14) ]

SettingsFields == DOMAIN DEFAULTS

\* s.f ?? DEFAULTS.f, and s.f || DEFAULTS.f where s.f is an array: the default
\* stands in for a field the object does not have
orDefault(s, f) == IF f \in DOMAIN s THEN s[f] ELSE DEFAULTS[f]

\* s.f || DEFAULTS.f on a number: 0 is taken for absent as well
numberOrDefault(s, f) == IF f \in DOMAIN s /\ s[f] # 0 THEN s[f] ELSE DEFAULTS[f]

\* s.f || DEFAULTS.f on a time 'HH:mm': the empty string is taken for absent as well
timeOrDefault(s, f) == IF f \in DOMAIN s /\ s[f] # <<>> THEN s[f] ELSE DEFAULTS[f]

\* getSettings: { ...DEFAULTS, ...val } of the stored value val
getSettings(val) ==
    [f \in SettingsFields |-> IF f \in DOMAIN val THEN val[f] ELSE DEFAULTS[f]]

\* saveSettings(settings): merge over the current value, clean, store.
cleanSettings(current, partial) ==
    LET merged == [f \in SettingsFields |->
                      IF f \in DOMAIN partial THEN partial[f] ELSE current[f]]
        cleanedWeigh == {clampNumber(d, N(0), N(6)) : d \in merged.weighDaysOfWeek}
    IN [ reminderDow |-> merged.reminderDow,
         reminderTime |-> timeOrDefault(merged, "reminderTime"),
         injectionDayOfWeek |->
             clampNumber(orDefault(merged, "injectionDayOfWeek"), N(0), N(6)),
         injectionTime |-> timeOrDefault(merged, "injectionTime"),
         weighDaysOfWeek |-> IF cleanedWeigh # {} THEN cleanedWeigh
                             ELSE DEFAULTS.weighDaysOfWeek,
         measureReminderEveryDays |->
             Max(N(7), floorNum(numberOrDefault(merged, "measureReminderEveryDays"))) ]

\* the i-th number of 'HH:mm' split at the colon, 0 where there is none
partOf(timeHHmm, i) == IF Len(timeHHmm) >= i THEN timeHHmm[i] ELSE 0

computeNextReminderDate(s, fromDate) ==
    IF "reminderDow" \notin DOMAIN s \/ s.reminderDow = None THEN None
    ELSE LET dow == s.reminderDow[1]
             timeHHmm == timeOrDefault(s, "reminderTime")
             currentDow == getDay(fromDate)
             delta == (dow - N(currentDow) + N(7)) % N(7)
             candidate == startOfDay(fromDate)
                            + HHmm(partOf(timeHHmm, 1), partOf(timeHHmm, 2))
         IN IF dow % 2 # 0 \/ dow < N(0) \/ dow > N(6) THEN None
            ELSE IF delta = 0 /\ candidate <= fromDate
                 THEN Some(addDays(candidate, 7))
                 ELSE Some(addDays(candidate, daysOf(delta)))

\* today's slot is returned even when the instant asked from is that very slot
computeNextScheduledDateTime_KeepsNow(s, fromDate) ==
    LET dow == clampNumber(orDefault(s, "injectionDayOfWeek"), N(0), N(6))
        timeHHmm == timeOrDefault(s, "injectionTime")
        currentDow == getDay(fromDate)
        delta == (dow - N(currentDow) + N(7)) % N(7)
        candidate == startOfDay(fromDate) + HHmm(partOf(timeHHmm, 1), partOf(timeHHmm, 2))
    IN IF delta = 0 /\ candidate < fromDate
       THEN addDays(candidate, 7)
       ELSE addDays(candidate, daysOf(delta))

\* dow is held in halves; setDate drops the fraction of a day count
computeNextScheduledDateTime(s, fromDate) ==
    LET dow == clampNumber(orDefault(s, "injectionDayOfWeek"), N(0), N(6))
        timeHHmm == timeOrDefault(s, "injectionTime")
        currentDow == getDay(fromDate)
        delta == (dow - N(currentDow) + N(7)) % N(7)
        candidate == startOfDay(fromDate) + HHmm(partOf(timeHHmm, 1), partOf(timeHHmm, 2))
    IN IF delta = 0 /\ candidate <= fromDate
       THEN addDays(candidate, 7)
       ELSE addDays(candidate, daysOf(delta))

----------------------------------------------------------------------------
(* Checklist *)

CHECKLIST_CUTOFF_TIME == <<12, 0>>

\* a cutoff that has passed only once the clock is beyond it
isAfterTimeHHmm_StrictlyAfter(date, timeHHmm) ==
    date > startOfDay(date) + HHmm(timeHHmm[1], timeHHmm[2])

isAfterTimeHHmm(date, timeHHmm) ==
    date >= startOfDay(date) + HHmm(timeHHmm[1], timeHHmm[2])

\* the measurement record sortByDateDesc puts first, if any
lastMeasuresOf(ms) ==
    IF ms = {} THEN None
    ELSE Some(CHOOSE m \in ms : \A o \in ms : o.dateISO <= m.dateISO)

\* the cache buildChecklistCache makes of what getAll reads from the three stores
cacheOf(ws, is, ms) ==
    [ weights |-> ws,
      injections |-> is,
      measures |-> ms,
      weightKeys |-> {getLocalDateKey(w.dateTimeISO) : w \in ws},
      injectionKeys |-> {getLocalDateKey(i.dateTimeISO) : i \in is},
      measuresKeys |-> {m.dateISO : m \in ms},
      lastMeasures |-> lastMeasuresOf(ms) ]

buildChecklistCache == cacheOf(weights, injections, measures)

isWeightLoggedOn(dateKey, cache) == dateKey \in cache.weightKeys
isInjectionLoggedOn(dateKey, cache) == dateKey \in cache.injectionKeys
isMeasuresLoggedOn(dateKey, cache) == dateKey \in cache.measuresKeys

\* a status that calls an open item of today late already
getStatus_LateToday(item, nowDate) ==
    IF item.done THEN "done"
    ELSE IF compareDateKeys(item.dateKey, getLocalDateKey(nowDate)) <= 0 THEN "late"
    ELSE "pending"

getStatus(item, nowDate) ==
    IF item.done THEN "done"
    ELSE IF compareDateKeys(item.dateKey, getLocalDateKey(nowDate)) < 0 THEN "late"
    ELSE "pending"

\* a due date that is anchored one cadence ahead when nothing was ever measured
computeMeasuresDueDateKey_NoFirstReminder(cache, s, todayKey) ==
    LET every == daysOf(Max(N(7), floorNum(numberOrDefault(s, "measureReminderEveryDays"))))
    IN IF cache.lastMeasures = None THEN todayKey + every
       ELSE LET dueKey == cache.lastMeasures[1].dateISO + every
            IN IF dueKey < todayKey THEN todayKey ELSE dueKey

\* a due date that recedes into the past instead of sticking to today
computeMeasuresDueDateKey_Receding(cache, s, todayKey) ==
    LET every == daysOf(Max(N(7), floorNum(numberOrDefault(s, "measureReminderEveryDays"))))
    IN IF cache.lastMeasures = None THEN todayKey
       ELSE cache.lastMeasures[1].dateISO + every

\* a due date that, once missed, is put off by a whole cadence from today
computeMeasuresDueDateKey_PutOff(cache, s, todayKey) ==
    LET every == daysOf(Max(N(7), floorNum(numberOrDefault(s, "measureReminderEveryDays"))))
    IN IF cache.lastMeasures = None THEN todayKey
       ELSE LET dueKey == cache.lastMeasures[1].dateISO + every
            IN IF dueKey < todayKey THEN todayKey + every ELSE dueKey

computeMeasuresDueDateKey(cache, s, todayKey) ==
    LET every == daysOf(Max(N(7), floorNum(numberOrDefault(s, "measureReminderEveryDays"))))
    IN IF cache.lastMeasures = None THEN todayKey
       ELSE LET base == parseDateKeyToLocalDate(cache.lastMeasures[1].dateISO, <<0, 0>>)
                due == addDays(base, every)
                dueKey == getLocalDateKey(due)
            IN IF compareDateKeys(dueKey, todayKey) < 0 THEN todayKey ELSE dueKey

\* it.status = v, it.warnAfterCutoff = v: assignment to a field of an item
withField(item, field, v) ==
    [f \in (DOMAIN item) \cup {field} |-> IF f = field THEN v ELSE item[f]]

buildChecklistForDate(date, c, s, nowDate) ==
    LET dateKey == getLocalDateKey(date)
        todayKey == getLocalDateKey(nowDate)
        dow == getDay(date)
        warn(done) == /\ compareDateKeys(dateKey, todayKey) = 0
                      /\ isAfterTimeHHmm(nowDate, CHECKLIST_CUTOFF_TIME)
                      /\ ~done
        weightItems ==
            IF "weighDaysOfWeek" \in DOMAIN s /\ N(dow) \in s.weighDaysOfWeek
            THEN LET done == isWeightLoggedOn(dateKey, c)
                 IN << [ kind |-> "weight", title |-> "Pesagem", dateKey |-> dateKey,
                         required |-> TRUE, done |-> done,
                         warnAfterCutoff |-> warn(done) ] >>
            ELSE <<>>
        injectionItems ==
            IF "injectionDayOfWeek" \in DOMAIN s /\ N(dow) = s.injectionDayOfWeek
            THEN LET done == isInjectionLoggedOn(dateKey, c)
                 IN << [ kind |-> "injection", title |-> "Aplicacao", dateKey |-> dateKey,
                         required |-> TRUE, done |-> done,
                         warnAfterCutoff |-> warn(done),
                         meta |-> timeOrDefault(s, "injectionTime") ] >>
            ELSE <<>>
        measuresDueKey == computeMeasuresDueDateKey(c, s, todayKey)
        measuresItems ==
            IF compareDateKeys(dateKey, measuresDueKey) = 0
            THEN << [ kind |-> "measures", title |-> "Medidas (opcional)",
                      dateKey |-> dateKey, required |-> FALSE,
                      done |-> isMeasuresLoggedOn(dateKey, c),
                      meta |-> Max(N(7), floorNum(numberOrDefault(
                                                    s, "measureReminderEveryDays"))) ] >>
            ELSE <<>>
        items == weightItems \o injectionItems \o measuresItems
    IN [i \in 1..Len(items) |-> withField(items[i], "status", getStatus(items[i], nowDate))]

RECURSIVE upcomingFrom(_, _, _, _, _)
upcomingFrom(i, days, base, c, s) ==
    IF i > days THEN <<>>
    ELSE LET d == addDays(base, i)
             items == buildChecklistForDate(d, c, s, clock)
             entry == IF Len(items) > 0
                      THEN << [dateKey |-> getLocalDateKey(d), dow |-> getDay(d),
                               items |-> items] >>
                      ELSE <<>>
         IN entry \o upcomingFrom(i + 1, days, base, c, s)

buildUpcomingChecklist(days) ==
    upcomingFrom(1, days, startOfDay(clock), buildChecklistCache, settings)

\* Array.prototype.sort with a comparator on dateKey, descending; stable
RECURSIVE insertByDateKeyDesc(_, _)
insertByDateKeyDesc(sorted, it) ==
    IF sorted = <<>> THEN <<it>>
    ELSE IF compareDateKeys(it.dateKey, Head(sorted).dateKey) > 0
         THEN <<it>> \o sorted
         ELSE <<Head(sorted)>> \o insertByDateKeyDesc(Tail(sorted), it)

RECURSIVE sortByDateKeyDesc(_)
sortByDateKeyDesc(items) ==
    IF items = <<>> THEN <<>>
    ELSE insertByDateKeyDesc(sortByDateKeyDesc(SubSeq(items, 1, Len(items) - 1)),
                             items[Len(items)])

\* a filter that lets the items already done through
overdueOf_KeepsDone(items) ==
    LET kept == SelectSeq(items, LAMBDA it : it.required)
    IN [i \in 1..Len(kept) |->
           withField(withField(kept[i], "status", "late"), "warnAfterCutoff", FALSE)]

overdueOf(items) ==
    LET kept == SelectSeq(items, LAMBDA it : it.required /\ ~it.done)
    IN [i \in 1..Len(kept) |->
           withField(withField(kept[i], "status", "late"), "warnAfterCutoff", FALSE)]

RECURSIVE overdueFrom(_, _, _, _, _)
overdueFrom(i, daysBack, base, c, s) ==
    IF i > daysBack THEN <<>>
    ELSE overdueOf(buildChecklistForDate(addDays(base, -i), c, s, clock))
         \o overdueFrom(i + 1, daysBack, base, c, s)

buildOverdueChecklist(daysBack) ==
    sortByDateKeyDesc(overdueFrom(1, daysBack, startOfDay(clock), buildChecklistCache, settings))

----------------------------------------------------------------------------
(* Weekly consistency and streaks *)

\* The loops of the two streak counters run up to 120 and 52 times.  A run of
\* iterations lo .. hi-1 is summed up as [streak, broke]: what it adds to streak
\* and whether it left the loop by break.  Runs are evaluated by halves, the
\* second half only counting when the first did not break.
joinRuns(first, second) ==
    IF first.broke THEN first
    ELSE [streak |-> first.streak + second.streak, broke |-> second.broke]

\* an iteration that an unscheduled day ends like a missed one
weightIteration_UnscheduledBreaks(checked, cache, weighDows) ==
    LET d == addDays(startOfDay(clock), -checked)
    IN IF N(getDay(d)) \in weighDows /\ getLocalDateKey(d) \in cache.weightKeys
       THEN [streak |-> 1, broke |-> FALSE]
       ELSE [streak |-> 0, broke |-> TRUE]

\* one iteration of the while loop of countStreakWeights, checked days back
weightIteration(checked, cache, weighDows) ==
    LET d == addDays(startOfDay(clock), -checked)
    IN IF N(getDay(d)) \in weighDows
       THEN IF getLocalDateKey(d) \in cache.weightKeys
            THEN [streak |-> 1, broke |-> FALSE]
            ELSE [streak |-> 0, broke |-> TRUE]
       ELSE [streak |-> 0, broke |-> FALSE]

RECURSIVE weightIterations(_, _, _, _)
weightIterations(lo, hi, cache, weighDows) ==
    IF hi <= lo THEN [streak |-> 0, broke |-> FALSE]
    ELSE IF hi = lo + 1 THEN weightIteration(lo, cache, weighDows)
    ELSE LET mid == (lo + hi) \div 2
         IN joinRuns(weightIterations(lo, mid, cache, weighDows),
                     weightIterations(mid, hi, cache, weighDows))

\* a lookback that forgives a missed scheduled day and goes on counting
countStreakWeights_SkipMissed(cache, s, maxLookbackDays) ==
    Cardinality({checked \in 0..(maxLookbackDays - 1) :
                    weightIteration(checked, cache, orDefault(s, "weighDaysOfWeek")).streak = 1})

countStreakWeights(cache, s, maxLookbackDays) ==
    weightIterations(0, maxLookbackDays, cache, orDefault(s, "weighDaysOfWeek")).streak

\* the day of the Monday-to-Sunday block starting at weekStart whose weekday is dow
dayOfWeekIn(weekStart, dow) ==
    LET js == {j \in 0..6 : N(getDay(addDays(weekStart, j))) = dow}
    IN IF js = {} THEN None
       ELSE Some(addDays(weekStart, CHOOSE j \in js : \A k \in js : j <= k))

\* an iteration that takes an injection on any day of the week for the week's one
injectionIteration_AnyDayOfWeek(i, cache, injDow) ==
    LET weekStart == addDays(startOfWeekMonday(clock), -7 * i)
    IN IF \E j \in 0..6 : getLocalDateKey(addDays(weekStart, j)) \in cache.injectionKeys
       THEN [streak |-> 1, broke |-> FALSE]
       ELSE [streak |-> 0, broke |-> TRUE]

\* one iteration of the for loop of countStreakInjections, i weeks back
injectionIteration(i, cache, injDow) ==
    LET candidate == dayOfWeekIn(addDays(startOfWeekMonday(clock), -7 * i), injDow)
    IN IF candidate = None THEN [streak |-> 0, broke |-> TRUE]
       ELSE IF getLocalDateKey(candidate[1]) \in cache.injectionKeys
            THEN [streak |-> 1, broke |-> FALSE]
            ELSE [streak |-> 0, broke |-> TRUE]

RECURSIVE injectionIterations(_, _, _, _)
injectionIterations(lo, hi, cache, injDow) ==
    IF hi <= lo THEN [streak |-> 0, broke |-> FALSE]
    ELSE IF hi = lo + 1 THEN injectionIteration(lo, cache, injDow)
    ELSE LET mid == (lo + hi) \div 2
         IN joinRuns(injectionIterations(lo, mid, cache, injDow),
                     injectionIterations(mid, hi, cache, injDow))

\* a count that passes over the current week while it has no injection
countStreakInjections_ForgivesOpenWeek(cache, s, maxWeeks) ==
    LET injDow == clampNumber(orDefault(s, "injectionDayOfWeek"), N(0), N(6))
    IN IF injectionIteration(0, cache, injDow).broke
       THEN injectionIterations(1, maxWeeks, cache, injDow).streak
       ELSE injectionIterations(0, maxWeeks, cache, injDow).streak

countStreakInjections(cache, s, maxWeeks) ==
    injectionIterations(0, maxWeeks, cache,
                        clampNumber(orDefault(s, "injectionDayOfWeek"), N(0), N(6))).streak

\* a quotient cut off instead of rounded
MathRound_Truncating(num, den) == num \div den

\* Math.round(num / den), num >= 0, den > 0
MathRound(num, den) == (2 * num + den) \div (2 * den)

\* what renderWeeklyConsistency computes and shows
renderWeeklyConsistency(cache, s, weekOffset) ==
    LET offset == Max(0, weekOffset)
        base == startOfWeekMonday(clock)
        start == addDays(base, -7 * offset)
        expectedWeighKeys == {getLocalDateKey(addDays(start, i)) :
                                 i \in {j \in 0..6 : N(getDay(addDays(start, j)))
                                                         \in orDefault(s, "weighDaysOfWeek")}}
        injDow == clampNumber(orDefault(s, "injectionDayOfWeek"), N(0), N(6))
        injDay == dayOfWeekIn(start, injDow)
        expectedWeights == Cardinality(expectedWeighKeys)
        doneWeights == Cardinality(expectedWeighKeys \cap cache.weightKeys)
        expectedInj == IF injDay # None THEN 1 ELSE 0
        doneInj == IF injDay # None /\ getLocalDateKey(injDay[1]) \in cache.injectionKeys
                   THEN 1 ELSE 0
        expectedPoints == expectedWeights + (IF expectedInj # 0 THEN 2 ELSE 0)
        donePoints == doneWeights + (IF doneInj # 0 THEN 2 ELSE 0)
        pct == IF expectedPoints # 0 THEN MathRound(donePoints * 100, expectedPoints) ELSE 0
    IN [ start |-> getLocalDateKey(start), pct |-> pct,
         doneWeights |-> doneWeights, expectedWeights |-> expectedWeights,
         doneInj |-> doneInj, expectedInj |-> expectedInj,
         streakWeights |-> countStreakWeights(cache, s, DefaultMaxLookbackDays),
         streakInjections |-> countStreakInjections(cache, s, DefaultMaxWeeks) ]

----------------------------------------------------------------------------
(* Weight deltas and local insights *)

\* list.sort(sortByDateTimeDesc): latest first, records of one instant staying
\* in the order they had (Array.prototype.sort is stable)
sortByDateTimeDesc(list) ==
    LET insert(sorted, x) ==
            LET k == Cardinality({i \in 1..Len(sorted) :
                                     sorted[i].dateTimeISO >= x.dateTimeISO})
            IN SubSeq(sorted, 1, k) \o <<x>> \o SubSeq(sorted, k + 1, Len(sorted))
        firstOnes[n \in 0..Len(list)] ==
            IF n = 0 THEN <<>> ELSE insert(firstOnes[n - 1], list[n])
    IN firstOnes[Len(list)]

\* list.sort((a, b) => new Date(a.dateTimeISO) - new Date(b.dateTimeISO))
sortByDateTimeAsc(list) ==
    LET insert(sorted, x) ==
            LET k == Cardinality({i \in 1..Len(sorted) :
                                     sorted[i].dateTimeISO <= x.dateTimeISO})
            IN SubSeq(sorted, 1, k) \o <<x>> \o SubSeq(sorted, k + 1, Len(sorted))
        firstOnes[n \in 0..Len(list)] ==
            IF n = 0 THEN <<>> ELSE insert(firstOnes[n - 1], list[n])
    IN firstOnes[Len(list)]

\* a pick that passes over a sample taken exactly at the target instant
pickWeightClosestAtOrBefore_StrictlyBefore(weightsDesc, targetDate) ==
    LET older == {i \in 1..Len(weightsDesc) : weightsDesc[i].dateTimeISO < targetDate}
    IN IF older = {} THEN None
       ELSE Some(weightsDesc[CHOOSE i \in older : \A j \in older : i <= j])

pickWeightClosestAtOrBefore(weightsDesc, targetDate) ==
    LET older == {i \in 1..Len(weightsDesc) : weightsDesc[i].dateTimeISO <= targetDate}
    IN IF older = {} THEN None
       ELSE Some(weightsDesc[CHOOSE i \in older : \A j \in older : i <= j])

computeWeightDeltas(weightsDesc) ==
    IF Len(weightsDesc) = 0
    THEN [last |-> None, d7 |-> None, d14 |-> None, d30 |-> None, lastDate |-> None]
    ELSE LET last == weightsDesc[1]
             lastDate == last.dateTimeISO
             w7 == pickWeightClosestAtOrBefore(weightsDesc, addDays(lastDate, -7))
             w14 == pickWeightClosestAtOrBefore(weightsDesc, addDays(lastDate, -14))
             w30 == pickWeightClosestAtOrBefore(weightsDesc, addDays(lastDate, -30))
             d(w) == IF w # None THEN Some(last.weightKg - w[1].weightKg) ELSE None
         IN [last |-> Some(last), lastDate |-> Some(lastDate),
             d7 |-> d(w7), d14 |-> d(w14), d30 |-> d(w30)]

\* the cache as buildLocalInsights reads it: weights and injections are the
\* arrays getAll returned, in the order of the store
cacheOfLists(weightList, injectionList) ==
    [ weights |-> weightList,
      injections |-> injectionList,
      weightKeys |-> {getLocalDateKey(weightList[i].dateTimeISO) : i \in 1..Len(weightList)},
      injectionKeys |-> {getLocalDateKey(injectionList[i].dateTimeISO) :
                            i \in 1..Len(injectionList)} ]

\* rule 1: six or more weigh-ins in the last 14 days within less than 0.3 kg
plateauRule(cache) ==
    LET cutoff14 == clock - 14 * MinutesPerDay
        w14 == SelectSeq(cache.weights, LAMBDA w : w.dateTimeISO >= cutoff14)
        ys == {w14[i].weightKg : i \in 1..Len(w14)}
        top == CHOOSE y \in ys : \A z \in ys : z <= y
        bottom == CHOOSE y \in ys : \A z \in ys : y <= z
    IN IF Len(w14) >= 6 /\ top - bottom < 3
       THEN << [title |-> "Possivel plato", kind |-> "warn"] >>
       ELSE <<>>

\* rule 2: a rise of more than 1 kg within 48 h that is back within 0.3 kg of
\* the start 72 h later
reboundRule(cache) ==
    LET wAsc == sortByDateTimeAsc(cache.weights)
        abs(x) == IF x < 0 THEN -x ELSE x
    IN IF \E i \in 1..(Len(wAsc) - 2) :
             /\ wAsc[i + 1].dateTimeISO - wAsc[i].dateTimeISO <= 48 * 60
             /\ wAsc[i + 1].weightKg - wAsc[i].weightKg > 10
             /\ wAsc[i + 2].dateTimeISO - wAsc[i + 1].dateTimeISO <= 72 * 60
             /\ abs(wAsc[i + 2].weightKg - wAsc[i].weightKg) <= 3
       THEN << [title |-> "Oscilacao compativel com retencao", kind |-> "info"] >>
       ELSE <<>>

\* a rule that warns as soon as a single expected weigh-in is missing
missedWeighInsRule_AnyMissed(cache, s) ==
    LET start == startOfWeekMonday(clock)
        expected == {getLocalDateKey(addDays(start, i)) :
                        i \in {j \in 0..6 : N(getDay(addDays(start, j)))
                                                \in orDefault(s, "weighDaysOfWeek")}}
        done == Cardinality(expected \cap cache.weightKeys)
    IN IF Cardinality(expected) - done >= 1
       THEN << [title |-> "Rotina de pesagem", kind |-> "warn"] >>
       ELSE <<>>

\* rule 3: two or more expected weigh-ins of the current week are missing
missedWeighInsRule(cache, s) ==
    LET start == startOfWeekMonday(clock)
        expected == {getLocalDateKey(addDays(start, i)) :
                        i \in {j \in 0..6 : N(getDay(addDays(start, j)))
                                                \in orDefault(s, "weighDaysOfWeek")}}
        done == Cardinality(expected \cap cache.weightKeys)
    IN IF Cardinality(expected) - done >= 2
       THEN << [title |-> "Rotina de pesagem", kind |-> "warn"] >>
       ELSE <<>>

\* rule 4: the latest injection is not on the injection weekday
scheduleMismatchRule(cache, s) ==
    LET injDow == clampNumber(orDefault(s, "injectionDayOfWeek"), N(0), N(6))
        injDesc == sortByDateTimeDesc(cache.injections)
    IN IF Len(injDesc) > 0 /\ N(getDay(injDesc[1].dateTimeISO)) # injDow
       THEN << [title |-> "Irregularidade de agenda", kind |-> "warn"] >>
       ELSE <<>>

\* a rule that is content with any two injections of high nausea
recurringHighSymptomRule_AnyTwo(cache) ==
    LET high == {i \in 1..Len(cache.injections) :
                    clampNumber(cache.injections[i].symptoms.nausea, N(0), N(10)) >= N(7)}
    IN IF Cardinality(high) >= 2
       THEN << [title |-> "Nausea alta recorrente", kind |-> "danger"] >>
       ELSE <<>>

\* rule 5: the two latest injections both have nausea of 7 or more
recurringHighSymptomRule(cache) ==
    LET injDesc == sortByDateTimeDesc(cache.injections)
    IN IF Len(injDesc) >= 2
          /\ clampNumber(injDesc[1].symptoms.nausea, N(0), N(10)) >= N(7)
          /\ clampNumber(injDesc[2].symptoms.nausea, N(0), N(10)) >= N(7)
       THEN << [title |-> "Nausea alta recorrente", kind |-> "danger"] >>
       ELSE <<>>

\* insights that stop at the first rule that fires
buildLocalInsights_FirstRuleOnly(cache, s) ==
    LET items == plateauRule(cache) \o reboundRule(cache) \o missedWeighInsRule(cache, s)
                    \o scheduleMismatchRule(cache, s) \o recurringHighSymptomRule(cache)
    IN IF Len(items) = 0
       THEN << [title |-> "Sem alertas por regras locais", kind |-> "ok"] >>
       ELSE << items[1] >>

buildLocalInsights(cache, s) ==
    LET items == plateauRule(cache) \o reboundRule(cache) \o missedWeighInsRule(cache, s)
                    \o scheduleMismatchRule(cache, s) \o recurringHighSymptomRule(cache)
    IN IF Len(items) = 0
       THEN << [title |-> "Sem alertas por regras locais", kind |-> "ok"] >>
       ELSE items

----------------------------------------------------------------------------
(* Summaries of a window of days: regularity, weight trend, measure deltas *)

\* a quotient the code computes in floating point, kept as numerator and
\* denominator
ratio(num, den) == [num |-> num, den |-> den]

\* normalizeMeasures: every body field is there, null (None) where the input
\* has none; a number n is held as Some(n), in tenths of a centimetre
BodyFields ==
    {"waistCm", "hipCm", "armLCm", "armRCm", "thighCm", "calfCm", "chestCm", "neckCm"}

normalizeMeasures(input) ==
    [k \in {"id", "dateISO"} \cup BodyFields |->
        IF k \in {"id", "dateISO"} THEN input[k]
        ELSE IF k \in DOMAIN input THEN Some(input[k]) ELSE None]

\* list.sort(sortByDateDesc): dateISO descending, stable
sortByDateDesc(list) ==
    LET insert(sorted, x) ==
            LET k == Cardinality({i \in 1..Len(sorted) : sorted[i].dateISO >= x.dateISO})
            IN SubSeq(sorted, 1, k) \o <<x>> \o SubSeq(sorted, k + 1, Len(sorted))
        firstOnes[n \in 0..Len(list)] ==
            IF n = 0 THEN <<>> ELSE insert(firstOnes[n - 1], list[n])
    IN firstOnes[Len(list)]

\* [...list].sort((a, b) => a.dateISO.localeCompare(b.dateISO)): ascending, stable
sortByDateAsc(list) ==
    LET insert(sorted, x) ==
            LET k == Cardinality({i \in 1..Len(sorted) : sorted[i].dateISO <= x.dateISO})
            IN SubSeq(sorted, 1, k) \o <<x>> \o SubSeq(sorted, k + 1, Len(sorted))
        firstOnes[n \in 0..Len(list)] ==
            IF n = 0 THEN <<>> ELSE insert(firstOnes[n - 1], list[n])
    IN firstOnes[Len(list)]

elementsOf(list) == {list[i] : i \in DOMAIN list}

\* list.filter(keep), in the order of the list
RECURSIVE filterSeq(_, _)
filterSeq(list, keep) ==
    IF list = <<>> THEN <<>>
    ELSE (IF Head(list) \in keep THEN <<Head(list)>> ELSE <<>>) \o filterSeq(Tail(list), keep)

\* intervals between consecutive injections, in minutes (daysBetween * 1440)
computeInjectionRegularity(injectionsDesc) ==
    IF Len(injectionsDesc) < 2
    THEN [ count |-> Len(injectionsDesc), meanDays |-> None, onTimeRate |-> None,
           notes |-> "Poucos dados para avaliar regularidade." ]
    ELSE LET times == sortByDateTimeAsc(injectionsDesc)
             intervals == [i \in 1..(Len(times) - 1) |->
                              times[i + 1].dateTimeISO - times[i].dateTimeISO]
             total == times[Len(times)].dateTimeISO - times[1].dateTimeISO
             onTime == Cardinality({i \in DOMAIN intervals :
                                      /\ intervals[i] >= 6 * MinutesPerDay
                                      /\ intervals[i] <= 8 * MinutesPerDay})
         IN [ count |-> Len(injectionsDesc),
              meanDays |-> Some(ratio(total, MinutesPerDay * Len(intervals))),
              onTimeRate |-> Some(ratio(onTime, Len(intervals))),
              notes |-> IF 2 * onTime < Len(intervals)
                        THEN "Variacao consideravel entre aplicacoes; vale checar rotina/agenda."
                        ELSE "Regularidade dentro do esperado para semanal." ]

\* a trend drawn from a single weigh-in: no change
computeWeightTrend_SingleSample(weightsDesc) ==
    IF Len(weightsDesc) < 1
    THEN [ start |-> None, end |-> None, deltaKg |-> None, perWeekKg |-> None,
           notes |-> "Poucos dados de peso." ]
    ELSE LET asc == sortByDateTimeAsc(weightsDesc)
             start == asc[1]
             end == asc[Len(asc)]
             minutes == Max(MinutesPerDay, end.dateTimeISO - start.dateTimeISO)
             deltaKg == end.weightKg - start.weightKg
             perWeek == ratio(deltaKg * 7 * MinutesPerDay, minutes)
         IN [ start |-> Some(start), end |-> Some(end), deltaKg |-> Some(deltaKg),
              perWeekKg |-> Some(perWeek),
              notes |-> IF perWeek.num >= 2 * perWeek.den THEN "Tendencia de subida"
                        ELSE IF perWeek.num <= -2 * perWeek.den THEN "Tendencia de queda"
                        ELSE "Tendencia estavel." ]

\* weights in tenths of a kilogram; days = Math.max(1, daysBetween(...)) in minutes
computeWeightTrend(weightsDesc) ==
    IF Len(weightsDesc) < 2
    THEN [ start |-> None, end |-> None, deltaKg |-> None, perWeekKg |-> None,
           notes |-> "Poucos dados de peso." ]
    ELSE LET asc == sortByDateTimeAsc(weightsDesc)
             start == asc[1]
             end == asc[Len(asc)]
             minutes == Max(MinutesPerDay, end.dateTimeISO - start.dateTimeISO)
             deltaKg == end.weightKg - start.weightKg
             perWeek == ratio(deltaKg * 7 * MinutesPerDay, minutes)
         IN [ start |-> Some(start), end |-> Some(end), deltaKg |-> Some(deltaKg),
              perWeekKg |-> Some(perWeek),
              notes |-> IF perWeek.num >= 2 * perWeek.den THEN "Tendencia de subida"
                        ELSE IF perWeek.num <= -2 * perWeek.den THEN "Tendencia de queda"
                        ELSE "Tendencia estavel." ]

\* the body fields and their labels
fields ==
    << <<"waistCm", "Cintura">>, <<"hipCm", "Quadril">>, <<"armLCm", "Braco E">>,
       <<"armRCm", "Braco D">>, <<"thighCm", "Coxa">>, <<"calfCm", "Panturrilha">>,
       <<"chestCm", "Peito">>, <<"neckCm", "Pescoco">> >>

\* record[k]: undefined (None here, as null is) where the record has no such field
fieldOf(record, k) == IF k \in DOMAIN record THEN record[k] ELSE None

\* deltas that take a missing value for 0
computeMeasuresDelta_NullAsZero(measuresDesc) ==
    IF Len(measuresDesc) < 2
    THEN [ start |-> None, end |-> None, deltas |-> None,
           notes |-> "Poucos dados de medidas." ]
    ELSE LET asc == sortByDateAsc(measuresDesc)
             start == asc[1]
             end == asc[Len(asc)]
             valueOf(record, k) == IF fieldOf(record, k) = None THEN 0
                                   ELSE fieldOf(record, k)[1]
             deltas == [label \in {fields[i][2] : i \in DOMAIN fields} |->
                           LET k == (CHOOSE i \in DOMAIN fields : fields[i][2] = label)
                           IN valueOf(end, fields[k][1]) - valueOf(start, fields[k][1])]
         IN [ start |-> Some(start), end |-> Some(end), deltas |-> Some(deltas),
              notes |-> "Variacoes pequenas sao normais." ]

\* deltas: null (None), or the object (Some) of the differences by label
computeMeasuresDelta(measuresDesc) ==
    IF Len(measuresDesc) < 2
    THEN [ start |-> None, end |-> None, deltas |-> None,
           notes |-> "Poucos dados de medidas." ]
    ELSE LET asc == sortByDateAsc(measuresDesc)
             start == asc[1]
             end == asc[Len(asc)]
             compared == {i \in DOMAIN fields : /\ fieldOf(start, fields[i][1]) # None
                                                /\ fieldOf(end, fields[i][1]) # None}
             deltas == [label \in {fields[i][2] : i \in compared} |->
                           LET k == (CHOOSE i \in compared : fields[i][2] = label)
                           IN fieldOf(end, fields[k][1])[1] - fieldOf(start, fields[k][1])[1]]
         IN [ start |-> Some(start), end |-> Some(end), deltas |-> Some(deltas),
              notes |-> IF compared = {} THEN "Sem valores comparaveis no periodo."
                        ELSE "Variacoes pequenas sao normais." ]

\* the records of the last days, latest first, and what is computed of them;
\* data holds the three lists as getAll returned them
buildSummaryForDays(days, data) ==
    LET cutoff == clock - days * MinutesPerDay
        injectionsN == sortByDateTimeDesc(filterSeq(data.injections,
                           {i \in elementsOf(data.injections) : i.dateTimeISO >= cutoff}))
        weightsN == sortByDateTimeDesc(filterSeq(data.weights,
                           {w \in elementsOf(data.weights) : w.dateTimeISO >= cutoff}))
        measuresN == sortByDateDesc(filterSeq(data.measures,
                           {x \in elementsOf(data.measures) :
                               parseDateKeyToLocalDate(x.dateISO, <<0, 0>>) >= cutoff}))
    IN [ days |-> days, injections |-> injectionsN, weights |-> weightsN,
         measures |-> measuresN,
         injReg |-> computeInjectionRegularity(injectionsN),
         wtTrend |-> computeWeightTrend(weightsN),
         msDelta |-> computeMeasuresDelta(measuresN) ]

\* the date keys of a list of records
uniqueDateKeysFromDateTimeISO(items) ==
    {getLocalDateKey(items[i].dateTimeISO) : i \in DOMAIN items}

\* expected and done weigh-ins and injections of the last rangeDays days, and
\* the ratio of the points done in percent; settings is an object, data holds
\* the lists of the period
computeScheduleAdherenceForRange(rangeDays, s, data) ==
    LET end == startOfDay(clock)
        start == addDays(end, -(Max(1, rangeDays) - 1))
        weighDows == orDefault(s, "weighDaysOfWeek")
        injDow == clampNumber(orDefault(s, "injectionDayOfWeek"), N(0), N(6))
        weightKeys == uniqueDateKeysFromDateTimeISO(data.weights)
        injKeys == uniqueDateKeysFromDateTimeISO(data.injections)
        steps == 0..(rangeDays - 1)
        weighSteps == {i \in steps : N(getDay(addDays(start, i))) \in weighDows}
        injSteps == {i \in steps : N(getDay(addDays(start, i))) = injDow}
        expectedWeights == Cardinality(weighSteps)
        doneWeights ==
            Cardinality({i \in weighSteps : getLocalDateKey(addDays(start, i)) \in weightKeys})
        expectedInj == Cardinality(injSteps)
        doneInj ==
            Cardinality({i \in injSteps : getLocalDateKey(addDays(start, i)) \in injKeys})
        expectedPoints == expectedWeights + expectedInj * 2
        donePoints == doneWeights + doneInj * 2
    IN [ expectedWeights |-> expectedWeights, doneWeights |-> doneWeights,
         expectedInj |-> expectedInj, doneInj |-> doneInj,
         expectedPoints |-> expectedPoints, donePoints |-> donePoints,
         pct |-> IF expectedPoints # 0 THEN MathRound(donePoints * 100, expectedPoints)
                 ELSE 0 ]

----------------------------------------------------------------------------
(* The store and the clock *)

NoOut == [op |-> "none"]

\* no backup, no interval set, no render and no saveSettings in progress
NoTicker == [checklistIntervalId |-> None, intervals |-> {}, route |-> "dashboard"]

NoRender == [pc |-> "idle"]

NoBackground ==
    /\ autoBackups = {}
    /\ ticker = NoTicker
    /\ render = NoRender
    /\ saves = {}

\* uuid(): an id no record of the store has.  Ids are opaque, so the fresh id
\* is named after the date entered and the number of ids already named so.
nextId(store, d) ==
    <<d, CHOOSE k \in 1..(Cardinality(store) + 1) :
            /\ \A r \in store : r.id # <<d, k>>
            /\ \A j \in 1..(k - 1) : \E r \in store : r.id = <<d, j>> >>

today == getLocalDateKey(clock)

\* the instants the clock of this model shows: just before and at the cutoff
ClockTimes == {HHmm(11, 59), HHmm(12, 0)}

\* the days records of this model are dated (day 0 is a Thursday)
WeightDays == {-1, 0, 1}
InjectionDays == {-5, 2}
MeasuresDays == {-14, -6}

storeSize == Cardinality(weights) + Cardinality(injections) + Cardinality(measures)

Tick ==
    /\ clock' = IF clock - startOfDay(clock) < HHmm(12, 0)
                THEN startOfDay(clock) + HHmm(12, 0)
                ELSE addDays(startOfDay(clock), 1) + HHmm(11, 59)
    /\ getLocalDateKey(clock') <= MaxDay
    /\ out' = NoOut
    /\ UNCHANGED <<weights, injections, measures, settings, background>>

PutWeight ==
    /\ storeSize < MaxRecords
    /\ \E d \in WeightDays, kg \in {800} :
          weights' = weights \cup
              {[id |-> nextId(weights, d), dateTimeISO |-> addDays(0, d) + HHmm(8, 0),
                weightKg |-> kg]}
    /\ out' = NoOut
    /\ UNCHANGED <<clock, injections, measures, settings, background>>

DeleteWeight ==
    /\ \E w \in weights : weights' = weights \ {w}
    /\ out' = NoOut
    /\ UNCHANGED <<clock, injections, measures, settings, background>>

\* the record normalizeInjection makes of an injection entered for day d at t
\* with nausea score n (the other symptom scores and texts are left out)
injectionAt(id, d, t, n) ==
    [id |-> id, dateTimeISO |-> addDays(0, d) + t,
     symptoms |-> [nausea |-> clampNumber(N(n), N(0), N(10))]]

PutInjection ==
    /\ storeSize < MaxRecords
    /\ \E d \in InjectionDays :
          injections' = injections \cup
              {injectionAt(nextId(injections, d), d, HHmm(9, 51), 0)}
    /\ out' = NoOut
    /\ UNCHANGED <<clock, weights, measures, settings, background>>

DeleteInjection ==
    /\ \E i \in injections : injections' = injections \ {i}
    /\ out' = NoOut
    /\ UNCHANGED <<clock, weights, measures, settings, background>>

PutMeasures ==
    /\ storeSize < MaxRecords
    /\ \E d \in MeasuresDays :
          measures' = measures \cup {[id |-> nextId(measures, d), dateISO |-> d]}
    /\ out' = NoOut
    /\ UNCHANGED <<clock, weights, injections, settings, background>>

DeleteMeasures ==
    /\ \E m \in measures : measures' = measures \ {m}
    /\ out' = NoOut
    /\ UNCHANGED <<clock, weights, injections, settings, background>>

SettingsInputs ==
    { [weighDaysOfWeek |-> {N(d) : d \in 0..7}, injectionDayOfWeek |-> N(4),
       measureReminderEveryDays |-> N(3)],
      [weighDaysOfWeek |-> {N(4)}, injectionDayOfWeek |-> N(5)],
      [weighDaysOfWeek |-> {N(2) + 1}, injectionDayOfWeek |-> N(2) + 1],
      [weighDaysOfWeek |-> {}, injectionDayOfWeek |-> N(7),
       measureReminderEveryDays |-> N(14)] }

SaveSettings ==
    /\ \E partial \in SettingsInputs :
          LET cleaned == cleanSettings(settings, partial)
          IN /\ settings' = cleaned
             /\ out' = [op |-> "saveSettings", input |-> partial, val |-> cleaned]
    /\ UNCHANGED <<clock, weights, injections, measures, background>>

\* how many times in a row the same call was made on an unchanged state
calls(op) == IF out.op = op THEN Min(out.n + 1, 2) ELSE 1

CallBuildChecklistForDate ==
    /\ \E d \in (today - 1)..(today + 1) :
          out' = [ op |-> "checklistForDate", n |-> 1, date |-> d,
                   val |-> buildChecklistForDate(addDays(0, d), buildChecklistCache,
                                                 settings, clock) ]
    /\ UNCHANGED <<clock, weights, injections, measures, settings, background>>

CallBuildUpcomingChecklist ==
    /\ \E days \in {3, 7} :
          out' = [ op |-> "upcoming", n |-> 1, days |-> days,
                   val |-> buildUpcomingChecklist(days) ]
    /\ UNCHANGED <<clock, weights, injections, measures, settings, background>>

\* an overdue list kept in a variable that outlives the call and is appended to
CallBuildOverdueChecklist_Accumulating ==
    /\ out' = [ op |-> "overdue", n |-> calls("overdue"), days |-> 7,
                val |-> IF out.op = "overdue" THEN out.val \o buildOverdueChecklist(7)
                        ELSE buildOverdueChecklist(7) ]
    /\ UNCHANGED <<clock, weights, injections, measures, settings, background>>

CallBuildOverdueChecklist ==
    /\ out' = [ op |-> "overdue", n |-> calls("overdue"), days |-> 7,
                val |-> buildOverdueChecklist(7) ]
    /\ UNCHANGED <<clock, weights, injections, measures, settings, background>>

Init ==
    /\ clock = addDays(0, 0) + HHmm(11, 59)
    /\ weights = {}
    /\ injections = {}
    /\ measures = {}
    /\ settings = DEFAULTS
    /\ out = NoOut
    /\ NoBackground

Next ==
    \/ Tick
    \/ PutWeight
    \/ DeleteWeight
    \/ PutInjection
    \/ DeleteInjection
    \/ PutMeasures
    \/ DeleteMeasures
    \/ SaveSettings
    \/ CallBuildChecklistForDate
    \/ CallBuildUpcomingChecklist
    \/ CallBuildOverdueChecklist

Spec == Init /\ [][Next]_vars

----------------------------------------------------------------------------
(* The weigh-in streak: a store that holds a history of weigh-ins, in which *)
(* the records of the last days are added and deleted                       *)

MaxPerDay == 1      \* weight records entered for one day
MaxDaysBack == 3    \* how far back from today weigh-ins are entered and deleted

\* how many days back the weigh-ins were kept without a miss
HistoryLengths == {0, DefaultMaxLookbackDays + 5}

StreakSettings ==
    { DEFAULTS,
      [DEFAULTS EXCEPT !.weighDaysOfWeek = {N(d) : d \in 0..6}],
      [DEFAULTS EXCEPT !.weighDaysOfWeek = {N(2) + 1}] }

\* the days the streak is looked at: a Thursday and the Monday after it
StreakDays == {0, 4}

RecentDays == (today - MaxDaysBack)..today

weightOn(d, k) ==
    [id |-> <<d, k>>, dateTimeISO |-> addDays(0, d) + HHmm(8, 0), weightKg |-> 800]

\* saveWeightFromForm for a recent day, and the streak counted on what the store
\* then holds
PutWeightRecent ==
    /\ \E d \in RecentDays :
          /\ Cardinality({w \in weights : getLocalDateKey(w.dateTimeISO) = d}) < MaxPerDay
          /\ LET ws == weights \cup {weightOn(d, nextId(weights, d)[2])}
             IN /\ weights' = ws
                /\ out' = [ op |-> "saveWeight", n |-> 1, date |-> d,
                            val |-> countStreakWeights(cacheOf(ws, injections, measures),
                                                       settings, DefaultMaxLookbackDays) ]
    /\ UNCHANGED <<clock, injections, measures, settings, background>>

\* the deleteWeight action for a recent day, and the streak counted on what the
\* store then holds.  The records of one day differ in their id only; the one
\* entered last is the one deleted.
DeleteWeightRecent ==
    /\ \E w \in weights :
          /\ getLocalDateKey(w.dateTimeISO) \in RecentDays
          /\ \A o \in weights : o.id[1] = w.id[1] => o.id[2] <= w.id[2]
          /\ LET ws == weights \ {w}
             IN /\ weights' = ws
                /\ out' = [ op |-> "deleteWeight", n |-> 1,
                            date |-> getLocalDateKey(w.dateTimeISO),
                            val |-> countStreakWeights(cacheOf(ws, injections, measures),
                                                       settings, DefaultMaxLookbackDays) ]
    /\ UNCHANGED <<clock, injections, measures, settings, background>>

CallCountStreakWeights ==
    /\ out' = [ op |-> "streakWeights", n |-> 1,
                val |-> countStreakWeights(buildChecklistCache, settings,
                                           DefaultMaxLookbackDays) ]
    /\ UNCHANGED <<clock, weights, injections, measures, settings, background>>

InitStreak ==
    /\ clock \in {addDays(0, d) + HHmm(12, 0) : d \in StreakDays}
    /\ settings \in StreakSettings
    /\ \E h \in HistoryLengths :
          weights = {weightOn(d, 1) : d \in {e \in (today - h + 1)..today :
                                                N(getDay(addDays(0, e)))
                                                    \in settings.weighDaysOfWeek}}
    /\ injections = {}
    /\ measures = {}
    /\ out = NoOut
    /\ NoBackground

NextStreak ==
    \/ PutWeightRecent
    \/ DeleteWeightRecent
    \/ CallCountStreakWeights

SpecStreak == InitStreak /\ [][NextStreak]_vars

----------------------------------------------------------------------------
(* The weekly consistency card: a store that holds some weeks of weigh-ins  *)
(* and injections, in which records of the latest weeks are saved and       *)
(* deleted and the card is rendered for the latest weeks                    *)

MaxWeekOffset == 1  \* weeks back from the current one that are edited and shown

\* how many past weeks were kept without a miss
HistoryWeeks == {0, 2, DefaultMaxWeeks + 1}

\* what the settings dialog or a restored backup hands to saveSettings
WeeklySettingsInputs ==
    { [weighDaysOfWeek |-> {N(d) : d \in 1..6}, injectionDayOfWeek |-> N(6)],
      [weighDaysOfWeek |-> {N(d) : d \in 0..6}, injectionDayOfWeek |-> N(4)],
      [weighDaysOfWeek |-> {N(2) + 1}, injectionDayOfWeek |-> N(2) + 1],
      [weighDaysOfWeek |-> {}, injectionDayOfWeek |-> N(7)] }

\* the days of the week starting weeksBack weeks before the current one
weekOf(weeksBack) ==
    LET start == getLocalDateKey(startOfWeekMonday(clock)) - 7 * weeksBack
    IN start..(start + 6)

\* the days weigh-ins are entered for: the Fridays of the latest weeks
WeightEntryDays == {d \in UNION {weekOf(i) : i \in 0..MaxWeekOffset} : getDay(addDays(0, d)) = 5}

\* the days injections are entered for: the Thursdays and Saturdays
InjectionEntryDays ==
    {d \in UNION {weekOf(i) : i \in 0..MaxWeekOffset} : getDay(addDays(0, d)) \in {4, 6}}

\* saveWeightFromForm for the record of day d (a new one or the one edited)
PutWeightInWeek ==
    /\ \E d \in WeightEntryDays :
          /\ weightOn(d, 1) \notin weights
          /\ weights' = weights \cup {weightOn(d, 1)}
    /\ out' = NoOut
    /\ UNCHANGED <<clock, injections, measures, settings, background>>

DeleteWeightInWeek ==
    /\ \E d \in WeightEntryDays :
          /\ weightOn(d, 1) \in weights
          /\ weights' = weights \ {weightOn(d, 1)}
    /\ out' = NoOut
    /\ UNCHANGED <<clock, injections, measures, settings, background>>

injectionOn(d) == injectionAt(<<d, 1>>, d, HHmm(9, 51), 0)

\* saveInjectionFromForm for the record of day d (a new one or the one edited)
PutInjectionInWeek ==
    /\ \E d \in InjectionEntryDays :
          /\ injectionOn(d) \notin injections
          /\ injections' = injections \cup {injectionOn(d)}
    /\ out' = NoOut
    /\ UNCHANGED <<clock, weights, measures, settings, background>>

DeleteInjectionInWeek ==
    /\ \E d \in InjectionEntryDays :
          /\ injectionOn(d) \in injections
          /\ injections' = injections \ {injectionOn(d)}
    /\ out' = NoOut
    /\ UNCHANGED <<clock, weights, measures, settings, background>>

CallRenderWeeklyConsistency ==
    /\ \E weekOffset \in 0..MaxWeekOffset :
          out' = [ op |-> "weekly", n |-> 1, weekOffset |-> weekOffset,
                   val |-> renderWeeklyConsistency(buildChecklistCache, settings,
                                                   weekOffset) ]
    /\ UNCHANGED <<clock, weights, injections, measures, settings, background>>

\* the card is looked at on a Sunday and on the Monday after it
InitWeekly ==
    /\ clock \in {addDays(0, d) + HHmm(12, 0) : d \in {3, 4}}
    /\ settings \in {cleanSettings(DEFAULTS, partial) : partial \in WeeklySettingsInputs}
    /\ \E h \in HistoryWeeks :
          LET past == UNION {weekOf(i) : i \in 1..h}
          IN /\ weights = {weightOn(d, 1) : d \in {e \in past :
                                  N(getDay(addDays(0, e))) \in settings.weighDaysOfWeek}}
             /\ injections = {injectionOn(d) : d \in {e \in past :
                                  N(getDay(addDays(0, e))) = settings.injectionDayOfWeek}}
    /\ measures = {}
    /\ out = NoOut
    /\ NoBackground

NextWeekly ==
    \/ PutWeightInWeek
    \/ DeleteWeightInWeek
    \/ PutInjectionInWeek
    \/ DeleteInjectionInWeek
    \/ CallRenderWeeklyConsistency

SpecWeekly == InitWeekly /\ [][NextWeekly]_vars

----------------------------------------------------------------------------
(* The weight card: a store of a few weigh-ins taken around the horizons of *)
(* 7, 14 and 30 days, sorted and handed to computeWeightDeltas              *)

MaxSamples == 4     \* weight records in the store

\* the weigh-ins entered: <<day, minutes after 08:00, tenths of kg>>; some lie
\* exactly a horizon before another, one a minute less, two at one instant
WeightSamples ==
    { <<0, 0, 800>>, <<-5, 0, 795>>, <<-7, 0, 790>>, <<-7, 1, 792>>, <<-7, 0, 810>>,
      <<-9, 0, 788>>, <<-14, 0, 785>>, <<-20, 0, 780>>, <<-30, 0, 770>> }

weightSample(x) ==
    [id |-> x, dateTimeISO |-> addDays(0, x[1]) + HHmm(8, 0) + x[2], weightKg |-> x[3]]

\* the orders in which getAll can return the records of a store
storeOrders(store) ==
    {list \in [1..Cardinality(store) -> store] :
        \A i, j \in 1..Cardinality(store) : i # j => list[i] # list[j]}

PutWeightSample ==
    /\ Cardinality(weights) < MaxSamples
    /\ \E x \in WeightSamples :
          /\ weightSample(x) \notin weights
          /\ weights' = weights \cup {weightSample(x)}
    /\ out' = NoOut
    /\ UNCHANGED <<clock, injections, measures, settings, background>>

DeleteWeightSample ==
    /\ \E w \in weights : weights' = weights \ {w}
    /\ out' = NoOut
    /\ UNCHANGED <<clock, injections, measures, settings, background>>

\* renderDashboard: getAll, weights.sort(sortByDateTimeDesc), computeWeightDeltas
CallComputeWeightDeltas ==
    /\ \E list \in storeOrders(weights) :
          out' = [ op |-> "deltas", n |-> 1,
                   val |-> computeWeightDeltas(sortByDateTimeDesc(list)) ]
    /\ UNCHANGED <<clock, weights, injections, measures, settings, background>>

InitDeltas ==
    /\ clock = addDays(0, 0) + HHmm(12, 0)
    /\ weights = {}
    /\ injections = {}
    /\ measures = {}
    /\ settings = DEFAULTS
    /\ out = NoOut
    /\ NoBackground

NextDeltas ==
    \/ PutWeightSample
    \/ DeleteWeightSample
    \/ CallComputeWeightDeltas

SpecDeltas == InitDeltas /\ [][NextDeltas]_vars

----------------------------------------------------------------------------
(* The insights: a store of a few injections with their nausea scores *)

MaxInjections == 3  \* injection records in the store

\* the injections entered: <<day, nausea score>>, on two Saturdays and a
\* Thursday, all at 09:51
InjectionSamples == {2, -5, -14} \X {3, 8, 9}

injectionSample(x) == injectionAt(x, x[1], HHmm(9, 51), x[2])

PutInjectionSample ==
    /\ Cardinality(injections) < MaxInjections
    /\ \E x \in InjectionSamples :
          /\ injectionSample(x) \notin injections
          /\ injections' = injections \cup {injectionSample(x)}
    /\ out' = NoOut
    /\ UNCHANGED <<clock, weights, measures, settings, background>>

DeleteInjectionSample ==
    /\ \E i \in injections : injections' = injections \ {i}
    /\ out' = NoOut
    /\ UNCHANGED <<clock, weights, measures, settings, background>>

CallBuildLocalInsights ==
    /\ \E weightList \in storeOrders(weights), injectionList \in storeOrders(injections) :
          out' = [ op |-> "insights", n |-> 1,
                   val |-> buildLocalInsights(cacheOfLists(weightList, injectionList),
                                              settings) ]
    /\ UNCHANGED <<clock, weights, injections, measures, settings, background>>

InitInsights ==
    /\ clock = addDays(0, 3) + HHmm(12, 0)
    /\ weights = {}
    /\ injections = {}
    /\ measures = {}
    /\ settings = DEFAULTS
    /\ out = NoOut
    /\ NoBackground

NextInsights ==
    \/ PutInjectionSample
    \/ DeleteInjectionSample
    \/ CallBuildLocalInsights

SpecInsights == InitInsights /\ [][NextInsights]_vars

----------------------------------------------------------------------------
(* The schedule resolvers: the next injection slot and the next reminder,  *)
(* asked from instants on, just before and just after a slot               *)

MaxFromDay == 6

ScheduleTimes == {<<0, 0>>, <<9, 51>>, <<23, 59>>}

\* minutes of the day the resolvers are asked from
FromMinutes == {HHmm(0, 0), HHmm(0, 1), HHmm(9, 50), HHmm(9, 51), HHmm(9, 52),
                HHmm(23, 58), HHmm(23, 59)}

\* the reminder weekday of the settings: '' (none), a weekday, 2.5 and 7
ReminderDows == {None, Some(N(2) + 1), Some(N(7))} \cup {Some(N(w)) : w \in 0..6}

CallComputeNextScheduledDateTime ==
    /\ out' = [op |-> "nextScheduled", val |-> computeNextScheduledDateTime(settings, clock)]
    /\ UNCHANGED <<clock, weights, injections, measures, settings, background>>

CallComputeNextReminderDate ==
    /\ out' = [op |-> "nextReminder", val |-> computeNextReminderDate(settings, clock)]
    /\ UNCHANGED <<clock, weights, injections, measures, settings, background>>

InitSchedule ==
    /\ clock \in {addDays(0, d) + mi : d \in 0..MaxFromDay, mi \in FromMinutes}
    /\ weights = {}
    /\ injections = {}
    /\ measures = {}
    /\ settings \in {cleanSettings(DEFAULTS, [injectionDayOfWeek |-> N(w), injectionTime |-> t,
                                              reminderDow |-> r, reminderTime |-> t]) :
                        w \in 0..6, t \in ScheduleTimes, r \in ReminderDows}
    /\ out = NoOut
    /\ NoBackground

NextSchedule ==
    \/ CallComputeNextScheduledDateTime
    \/ CallComputeNextReminderDate

SpecSchedule == InitSchedule /\ [][NextSchedule]_vars

----------------------------------------------------------------------------
(* Settings objects that lack fields, handed to the schedule and checklist *)
(* computations as they are                                                *)

OptionalFields ==
    {"injectionDayOfWeek", "injectionTime", "weighDaysOfWeek", "measureReminderEveryDays"}

\* a settings object none of whose fields holds its default
customSettings ==
    cleanSettings(DEFAULTS, [ injectionDayOfWeek |-> N(0), injectionTime |-> <<8, 0>>,
                              weighDaysOfWeek |-> {N(0), N(2)},
                              measureReminderEveryDays |-> N(7) ])

\* the objects that hold any subset of the optional fields
PartialSettings == {[f \in F |-> customSettings[f]] : F \in SUBSET OptionalFields}

\* the days looked at: a Saturday, a Sunday and a Monday
PartialDays == {2, 3, 4}

\* weigh-ins on every Monday, Wednesday and Friday of the last week
weighInsOfLastWeek(t) ==
    {weightOn(d, 1) : d \in {e \in (t - 6)..t :
                                 N(getDay(addDays(0, e))) \in DEFAULTS.weighDaysOfWeek}}

\* injections on the Saturdays of the last two weeks
injectionsOfLastWeeks(t) ==
    {injectionAt(<<d, 1>>, d, HHmm(9, 51), 0) :
        d \in {e \in (t - 13)..t : N(getDay(addDays(0, e))) = DEFAULTS.injectionDayOfWeek}}

CallComputeMeasuresDueDateKey ==
    /\ out' = [ op |-> "measuresDue",
                val |-> computeMeasuresDueDateKey(buildChecklistCache, settings, today) ]
    /\ UNCHANGED <<clock, weights, injections, measures, settings, background>>

CallCountStreakInjections ==
    /\ out' = [ op |-> "streakInjections",
                val |-> countStreakInjections(buildChecklistCache, settings,
                                              DefaultMaxWeeks) ]
    /\ UNCHANGED <<clock, weights, injections, measures, settings, background>>

InitPartial ==
    /\ clock \in {addDays(0, d) + HHmm(12, 0) : d \in PartialDays}
    /\ settings \in PartialSettings
    /\ weights \in {{}, weighInsOfLastWeek(today)}
    /\ injections \in {{}, injectionsOfLastWeeks(today)}
    /\ measures \in {{}, {[id |-> <<today - 10, 1>>, dateISO |-> today - 10]}}
    /\ out = NoOut
    /\ NoBackground

NextPartial ==
    \/ CallBuildChecklistForDate
    \/ CallComputeMeasuresDueDateKey
    \/ CallComputeNextScheduledDateTime
    \/ CallCountStreakWeights
    \/ CallCountStreakInjections

SpecPartial == InitPartial /\ [][NextPartial]_vars

----------------------------------------------------------------------------
(* The summary of the last days: stores of a few weigh-ins, injections and *)
(* measurements, some of them older than the window                        *)

MaxSummaryRecords == 3     \* records in each store

SummaryDays == {7, 30}

\* weigh-ins entered: <<day, minutes after 08:00, tenths of kg>>
SummaryWeightSamples == {<<0, 0, 800>>, <<-5, 0, 810>>, <<-40, 0, 850>>}

\* injections entered: <<day, nausea>>
SummaryInjectionSamples == {<<0, 0>>, <<-7, 0>>, <<-40, 0>>}

\* measurements entered: the day and the fields filled in, in tenths of cm
MeasureSamples ==
    { [id |-> 1, dateISO |-> -40, waistCm |-> 950, hipCm |-> 1050],
      [id |-> 2, dateISO |-> -20, waistCm |-> 900, hipCm |-> 1000, neckCm |-> 400],
      [id |-> 3, dateISO |-> -5, hipCm |-> 990],
      [id |-> 4, dateISO |-> -5, waistCm |-> 880],
      [id |-> 5, dateISO |-> 0, waistCm |-> 900, neckCm |-> 395],
      [id |-> 6, dateISO |-> 0] }

PutWeightSummary ==
    /\ Cardinality(weights) < MaxSummaryRecords
    /\ \E x \in SummaryWeightSamples :
          /\ weightSample(x) \notin weights
          /\ weights' = weights \cup {weightSample(x)}
    /\ out' = NoOut
    /\ UNCHANGED <<clock, injections, measures, settings, background>>

PutInjectionSummary ==
    /\ Cardinality(injections) < MaxSummaryRecords
    /\ \E x \in SummaryInjectionSamples :
          LET i == injectionAt(x, x[1], HHmm(9, 51), x[2])
          IN /\ i \notin injections
             /\ injections' = injections \cup {i}
    /\ out' = NoOut
    /\ UNCHANGED <<clock, weights, measures, settings, background>>

PutMeasuresSummary ==
    /\ Cardinality(measures) < MaxSummaryRecords
    /\ \E input \in MeasureSamples :
          /\ normalizeMeasures(input) \notin measures
          /\ measures' = measures \cup {normalizeMeasures(input)}
    /\ out' = NoOut
    /\ UNCHANGED <<clock, weights, injections, settings, background>>

\* the report and the insights read the three stores and summarise a window
CallBuildSummaryForDays ==
    /\ \E days \in SummaryDays, ws \in storeOrders(weights),
          is \in storeOrders(injections), ms \in storeOrders(measures) :
          out' = [ op |-> "summary",
                   val |-> buildSummaryForDays(days, [weights |-> ws, injections |-> is,
                                                      measures |-> ms]) ]
    /\ UNCHANGED <<clock, weights, injections, measures, settings, background>>

InitSummary ==
    /\ clock = addDays(0, 0) + HHmm(12, 0)
    /\ weights = {}
    /\ injections = {}
    /\ measures = {}
    /\ settings = DEFAULTS
    /\ out = NoOut
    /\ NoBackground

NextSummary ==
    \/ PutWeightSummary
    \/ DeleteWeight
    \/ PutInjectionSummary
    \/ DeleteInjection
    \/ PutMeasuresSummary
    \/ DeleteMeasures
    \/ CallBuildSummaryForDays

SpecSummary == InitSummary /\ [][NextSummary]_vars

----------------------------------------------------------------------------
(* The five rules of the insights: stores that hold a history of weigh-ins *)
(* (a plateau, a rebound, a complete week) in which the weigh-ins of the   *)
(* last two days and a few injections are added and deleted                *)

MaxRuleWeights == 9     \* weight records in the store

\* the days the insights are looked at: a Sunday and the Wednesday after it
RuleDays == {3, 6}

RuleSettingsInputs ==
    { [weighDaysOfWeek |-> {N(1), N(3), N(5)}, injectionDayOfWeek |-> N(6)],
      [weighDaysOfWeek |-> {N(d) : d \in 0..6}, injectionDayOfWeek |-> N(4)],
      [weighDaysOfWeek |-> {N(2) + 1}, injectionDayOfWeek |-> N(6)] }

\* a weigh-in of kg tenths of a kilogram, mi minutes into day d
ruleWeight(d, mi, kg) ==
    [id |-> <<d, mi>>, dateTimeISO |-> addDays(0, d) + mi, weightKg |-> kg]

\* six weigh-ins in the 14 days before day t, within 0.2 kg
plateauHistory(t) ==
    { ruleWeight(t - 12, HHmm(8, 0), 800), ruleWeight(t - 10, HHmm(8, 0), 801),
      ruleWeight(t - 8, HHmm(8, 0), 802), ruleWeight(t - 5, HHmm(8, 0), 800),
      ruleWeight(t - 4, HHmm(8, 0), 801), ruleWeight(t - 2, HHmm(8, 0), 802) }

\* up 1.2 kg in a day and back within 0.2 kg two days later, three weeks ago
reboundHistory(t) ==
    { ruleWeight(t - 21, HHmm(8, 0), 800), ruleWeight(t - 20, HHmm(8, 0), 812),
      ruleWeight(t - 18, HHmm(8, 0), 802) }

\* a weigh-in on the Monday, Wednesday and Friday of the week of day t that
\* are not after day t
weekHistory(t) ==
    { ruleWeight(d, HHmm(7, 0), 800) :
        d \in {e \in (t - 6)..t :
                  /\ getLocalDateKey(startOfWeekMonday(addDays(0, e)))
                        = getLocalDateKey(startOfWeekMonday(addDays(0, t)))
                  /\ N(getDay(addDays(0, e))) \in DEFAULTS.weighDaysOfWeek} }

WeightHistories(t) ==
    { {}, plateauHistory(t), reboundHistory(t), weekHistory(t),
      plateauHistory(t) \cup reboundHistory(t) }

\* the injections entered: <<day, nausea score>>, two Saturdays and a Thursday
RuleInjectionSamples == {<<2, 8>>, <<-5, 9>>, <<-14, 3>>}

\* the records of a store one after the other, earliest first
RECURSIVE byTime(_)
byTime(store) ==
    IF store = {} THEN <<>>
    ELSE LET x == CHOOSE r \in store : \A o \in store : r.dateTimeISO <= o.dateTimeISO
         IN <<x>> \o byTime(store \ {x})

reverseOf(list) == [i \in 1..Len(list) |-> list[Len(list) + 1 - i]]

\* two of the orders in which getAll can return the records of a store
getAllOrders(store) == {byTime(store), reverseOf(byTime(store))}

PutWeightRule ==
    /\ Cardinality(weights) < MaxRuleWeights
    /\ \E d \in (today - 1)..today, kg \in {800, 813} :
          LET w == ruleWeight(d, HHmm(9, 0) + (kg - 800), kg)
          IN /\ w \notin weights
             /\ weights' = weights \cup {w}
    /\ out' = NoOut
    /\ UNCHANGED <<clock, injections, measures, settings, background>>

\* the weigh-ins of the last two days can be deleted
DeleteWeightRule ==
    /\ \E w \in weights :
          /\ getLocalDateKey(w.dateTimeISO) >= today - 1
          /\ weights' = weights \ {w}
    /\ out' = NoOut
    /\ UNCHANGED <<clock, injections, measures, settings, background>>

PutInjectionRule ==
    /\ \E x \in RuleInjectionSamples :
          /\ injectionSample(x) \notin injections
          /\ injections' = injections \cup {injectionSample(x)}
    /\ out' = NoOut
    /\ UNCHANGED <<clock, weights, measures, settings, background>>

CallBuildLocalInsightsRules ==
    /\ \E weightList \in getAllOrders(weights), injectionList \in getAllOrders(injections) :
          out' = [ op |-> "insights", n |-> 1,
                   val |-> buildLocalInsights(cacheOfLists(weightList, injectionList),
                                              settings) ]
    /\ UNCHANGED <<clock, weights, injections, measures, settings, background>>

InitRules ==
    /\ clock \in {addDays(0, d) + HHmm(12, 0) : d \in RuleDays}
    /\ settings \in {cleanSettings(DEFAULTS, partial) : partial \in RuleSettingsInputs}
    /\ weights \in WeightHistories(today)
    /\ injections = {}
    /\ measures = {}
    /\ out = NoOut
    /\ NoBackground

NextRules ==
    \/ PutWeightRule
    \/ DeleteWeightRule
    \/ PutInjectionRule
    \/ DeleteInjectionSample
    \/ CallBuildLocalInsightsRules

SpecRules == InitRules /\ [][NextRules]_vars

----------------------------------------------------------------------------
(* The adherence of the clinical report: a store with a history of half a   *)
(* year, the latest days of which are entered and deleted, and the report   *)
(* of the last 30, 90 and 180 days                                          *)

MaxHistoryDays == 180   \* the days before today the history covers
MaxLateDays == 2        \* the days before today still entered and deleted

\* the day the report is made on, a Monday at noon
ReportDay == 200

\* the periods the report can be asked for
ReportRanges == {30, 90, 180}

\* schedules: the three weigh days of the settings view, and a weigh-in every day
AdherenceSettingsInputs ==
    { [weighDaysOfWeek |-> {N(1), N(3), N(5)}, injectionDayOfWeek |-> N(6)],
      [weighDaysOfWeek |-> {N(d) : d \in 0..6}, injectionDayOfWeek |-> N(6)] }

isExpectedWeighDay(d) == N(getDay(addDays(0, d))) \in settings.weighDaysOfWeek
isExpectedInjectionDay(d) == N(getDay(addDays(0, d))) = settings.injectionDayOfWeek

\* the days of the history, the latest of them, and the latest two injection days
HistoryDays == (today - MaxHistoryDays)..today
LateDays == (today - MaxLateDays)..today
LateInjectionDays == {d \in (today - 13)..today : isExpectedInjectionDay(d)}

\* getAll of a store with at most one record a day: the records in the order
\* of their keys, which are named after the days
listByDay(store) ==
    LET keys == {getLocalDateKey(r.dateTimeISO) : r \in store}
        byDay == [d \in keys |-> CHOOSE r \in store : getLocalDateKey(r.dateTimeISO) = d]
        days == SelectSeq([i \in 1..(MaxHistoryDays + 1) |-> today - MaxHistoryDays + i - 1],
                          LAMBDA d : d \in keys)
    IN [i \in DOMAIN days |-> byDay[days[i]]]

PutWeightLate ==
    /\ \E d \in LateDays :
          /\ isExpectedWeighDay(d)
          /\ weightOn(d, 1) \notin weights
          /\ weights' = weights \cup {weightOn(d, 1)}
    /\ out' = NoOut
    /\ UNCHANGED <<clock, injections, measures, settings, background>>

DeleteWeightLate ==
    /\ \E d \in LateDays :
          /\ weightOn(d, 1) \in weights
          /\ weights' = weights \ {weightOn(d, 1)}
    /\ out' = NoOut
    /\ UNCHANGED <<clock, injections, measures, settings, background>>

PutInjectionLate ==
    /\ \E d \in LateInjectionDays :
          /\ injectionOn(d) \notin injections
          /\ injections' = injections \cup {injectionOn(d)}
    /\ out' = NoOut
    /\ UNCHANGED <<clock, weights, measures, settings, background>>

DeleteInjectionLate ==
    /\ \E d \in LateInjectionDays :
          /\ injectionOn(d) \in injections
          /\ injections' = injections \ {injectionOn(d)}
    /\ out' = NoOut
    /\ UNCHANGED <<clock, weights, measures, settings, background>>

\* the records of the last days as buildSummaryForDays hands them on: those
\* at or after the cutoff, latest first (list is in the order of the days, no
\* two records of it at the same instant, so that sorting reverses it)
periodOf(days, list) ==
    reverseOf(SelectSeq(list, LAMBDA r : r.dateTimeISO >= clock - days * MinutesPerDay))

\* buildClinicalReportInnerHtml: the adherence of the records of the period
CallComputeScheduleAdherenceForRange ==
    /\ \E rangeDays \in ReportRanges :
          out' = [ op |-> "adherence", rangeDays |-> rangeDays,
                   val |-> computeScheduleAdherenceForRange(rangeDays, settings,
                             [weights |-> periodOf(rangeDays, listByDay(weights)),
                              injections |-> periodOf(rangeDays, listByDay(injections))]) ]
    /\ UNCHANGED <<clock, weights, injections, measures, settings, background>>

\* every expected weigh-in and injection of the history done, or none of them
InitAdherence ==
    /\ clock = addDays(0, ReportDay) + HHmm(12, 0)
    /\ settings \in {cleanSettings(DEFAULTS, partial) : partial \in AdherenceSettingsInputs}
    /\ \E kept \in {HistoryDays, {}} :
          /\ weights = {weightOn(d, 1) : d \in {e \in kept : isExpectedWeighDay(e)}}
          /\ injections = {injectionOn(d) : d \in {e \in kept : isExpectedInjectionDay(e)}}
    /\ measures = {}
    /\ out = NoOut
    /\ NoBackground

NextAdherence ==
    \/ PutWeightLate
    \/ DeleteWeightLate
    \/ PutInjectionLate
    \/ DeleteInjectionLate
    \/ CallComputeScheduleAdherenceForRange

SpecAdherence == InitAdherence /\ [][NextAdherence]_vars

----------------------------------------------------------------------------
(* Backups: the automatic backups kept in the database and the backup file *)

normalizeWeight(input) ==
    [id |-> input.id, dateTimeISO |-> input.dateTimeISO, weightKg |-> input.weightKg]

normalizeInjection(input) ==
    [id |-> input.id, dateTimeISO |-> input.dateTimeISO,
     symptoms |-> [nausea |-> clampNumber(IF "symptoms" \in DOMAIN input
                                          THEN input.symptoms.nausea ELSE N(0),
                                          N(0), N(10))]]

\* store.put(value): the record takes the place of the one with its key
put(store, value) == {r \in store : r.id # value.id} \cup {value}

\* a record of a backup, given a fresh id where it has none
withIdOf(r, store, d) ==
    [f \in DOMAIN r \cup {"id"} |->
        IF f # "id" THEN r[f] ELSE IF "id" \in DOMAIN r THEN r.id ELSE nextId(store, d)]

\* the loops of puts of a restore, from the store as it is cleared
RECURSIVE importInjections(_, _)
importInjections(store, list) ==
    IF list = <<>> THEN store
    ELSE LET inj == withIdOf(Head(list), store, getLocalDateKey(Head(list).dateTimeISO))
         IN importInjections(put(store, normalizeInjection(inj)), Tail(list))

RECURSIVE importWeights(_, _)
importWeights(store, list) ==
    IF list = <<>> THEN store
    ELSE LET w == withIdOf(Head(list), store, getLocalDateKey(Head(list).dateTimeISO))
         IN importWeights(put(store, normalizeWeight(w)), Tail(list))

RECURSIVE importMeasures(_, _)
importMeasures(store, list) ==
    IF list = <<>> THEN store
    ELSE LET x == withIdOf(Head(list), store, Head(list).dateISO)
         IN importMeasures(put(store, normalizeMeasures(x)), Tail(list))

\* getAll of a store of records dated by dateISO
RECURSIVE byDate(_)
byDate(store) ==
    IF store = {} THEN <<>>
    ELSE LET x == CHOOSE r \in store : \A o \in store : r.dateISO <= o.dateISO
         IN <<x>> \o byDate(store \ {x})

KeptAutoBackups == 5

\* new Date(b.timestamp) - new Date(a.timestamp) < 0: a is later than b.  A
\* timestamp is the reading of the clock and the place among the timestamps
\* taken at that reading.
laterThan(a, b) ==
    \/ a.timestamp[1] > b.timestamp[1]
    \/ a.timestamp[1] = b.timestamp[1] /\ a.timestamp[2] > b.timestamp[2]

\* new Date().toISOString() of a backup made now: after every backup stored
timestampNow ==
    LET taken == {b.timestamp[2] : b \in {o \in autoBackups : o.timestamp[1] = clock}}
    IN <<clock, IF taken = {} THEN 1
                ELSE 1 + CHOOSE n \in taken : \A other \in taken : other <= n>>

\* the backup createAutoBackup builds of the stores
backupOf(reason) ==
    [ id |-> timestampNow, timestamp |-> timestampNow, reason |-> reason,
      data |-> [ injections |-> byTime(injections), weights |-> byTime(weights),
                 measures |-> byDate(measures), settings |-> getSettings(settings) ] ]

\* a trim that keeps the earliest backups
createAutoBackup_KeepsEarliest(reason) ==
    LET allBackups == put(autoBackups, backupOf(reason))
    IN IF Cardinality(allBackups) > KeptAutoBackups
       THEN {b \in allBackups :
                Cardinality({o \in allBackups : laterThan(b, o)}) < KeptAutoBackups}
       ELSE allBackups

\* STORE_AUTO_BACKUPS after createAutoBackup(reason): the backup is put, and
\* of more than five backups those after the fifth latest are deleted
createAutoBackup(reason) ==
    LET allBackups == put(autoBackups, backupOf(reason))
    IN IF Cardinality(allBackups) > KeptAutoBackups
       THEN {b \in allBackups :
                Cardinality({o \in allBackups : laterThan(o, b)}) < KeptAutoBackups}
       ELSE allBackups

MaxBackupsPerMinute == 3   \* backups made at one reading of the clock

\* the readings of the clock: two minutes one after the other
BackupInstants == {HHmm(12, 0), HHmm(12, 1)}

TickBackup ==
    /\ clock + 1 \in BackupInstants
    /\ clock' = clock + 1
    /\ out' = NoOut
    /\ UNCHANGED <<weights, injections, measures, settings, background>>

PutWeightBackup ==
    /\ weights' = put(weights, normalizeWeight(weightOn(0, 1)))
    /\ weights' # weights
    /\ out' = NoOut
    /\ UNCHANGED <<clock, injections, measures, settings, background>>

DeleteWeightBackup ==
    /\ \E w \in weights : weights' = weights \ {w}
    /\ out' = NoOut
    /\ UNCHANGED <<clock, injections, measures, settings, background>>

\* the button of the settings view
CreateAutoBackup ==
    /\ timestampNow[2] <= MaxBackupsPerMinute
    /\ autoBackups' = createAutoBackup("manual")
    /\ out' = [op |-> "createAutoBackup", val |-> backupOf("manual")]
    /\ UNCHANGED <<clock, weights, injections, measures, settings, ticker, render, saves>>

\* restoreAutoBackup(backupId), confirmed or not
RestoreAutoBackup ==
    /\ timestampNow[2] <= MaxBackupsPerMinute
    /\ \E backupId \in {b.id : b \in autoBackups} \cup {<<0, 0>>}, proceed \in BOOLEAN :
          IF \A b \in autoBackups : b.id # backupId
          THEN /\ out' = [op |-> "restoreAutoBackup", backupId |-> backupId,
                          found |-> FALSE, proceed |-> FALSE]
               /\ UNCHANGED <<weights, injections, measures, settings, autoBackups>>
          ELSE IF ~proceed
          THEN /\ out' = [op |-> "restoreAutoBackup", backupId |-> backupId,
                          found |-> TRUE, proceed |-> FALSE]
               /\ UNCHANGED <<weights, injections, measures, settings, autoBackups>>
          ELSE LET backup == CHOOSE b \in autoBackups : b.id = backupId
                   data == backup.data
               IN /\ autoBackups' = createAutoBackup("pre-restore")
                  /\ injections' = importInjections({}, data.injections)
                  /\ weights' = importWeights({}, data.weights)
                  /\ measures' = importMeasures({}, data.measures)
                  /\ settings' = cleanSettings(getSettings(settings), data.settings)
                  /\ out' = [op |-> "restoreAutoBackup", backupId |-> backupId,
                             found |-> TRUE, proceed |-> TRUE]
    /\ UNCHANGED <<clock, ticker, render, saves>>

InitBackup ==
    /\ clock = HHmm(12, 0)
    /\ settings = cleanSettings(DEFAULTS, DEFAULTS)
    /\ weights = {}
    /\ injections = {}
    /\ measures = {}
    /\ out = NoOut
    /\ NoBackground

NextBackup ==
    \/ TickBackup
    \/ PutWeightBackup
    \/ DeleteWeightBackup
    \/ CreateAutoBackup
    \/ RestoreAutoBackup

SpecBackup == InitBackup /\ [][NextBackup]_vars

\* the backup files chosen: one of a single weigh-in, one with settings, an
\* injection without id, a measurement and the weigh-in of today at another
\* weight, and one that is not a backup
BackupFiles ==
    { [ injections |-> <<>>, weights |-> <<weightOn(-1, 1)>>, measures |-> <<>> ],
      [ injections |-> <<[dateTimeISO |-> addDays(0, -3) + HHmm(9, 0)]>>,
        weights |-> <<[weightOn(0, 1) EXCEPT !.weightKg = 790]>>,
        measures |-> <<[id |-> 1, dateISO |-> -2, waistCm |-> 900]>>,
        settings |-> [weighDaysOfWeek |-> {N(2)}] ],
      [ injections |-> <<>>, weights |-> <<>> ] }

validateBackupShape(obj) == {"injections", "weights", "measures"} \subseteq DOMAIN obj

\* restoreFromFile(file), confirmed or not
RestoreFromFile ==
    /\ \E data \in BackupFiles, proceed \in BOOLEAN :
          IF ~validateBackupShape(data) \/ ~proceed
          THEN /\ out' = [op |-> "restoreFromFile", file |-> data,
                          valid |-> validateBackupShape(data), proceed |-> FALSE]
               /\ UNCHANGED <<weights, injections, measures, settings>>
          ELSE /\ injections' = importInjections({}, data.injections)
               /\ weights' = importWeights({}, data.weights)
               /\ measures' = importMeasures({}, data.measures)
               /\ settings' =
                     IF "settings" \in DOMAIN data
                     THEN cleanSettings(getSettings(settings),
                              [f \in SettingsFields |-> orDefault(data.settings, f)])
                     ELSE settings
               /\ out' = [op |-> "restoreFromFile", file |-> data,
                          valid |-> TRUE, proceed |-> TRUE]
    /\ UNCHANGED <<clock, background>>

InitRestore ==
    /\ clock = HHmm(12, 0)
    /\ settings = cleanSettings(DEFAULTS, DEFAULTS)
    /\ weights = {}
    /\ injections = {}
    /\ measures = {}
    /\ out = NoOut
    /\ NoBackground

NextRestore ==
    \/ PutWeightBackup
    \/ DeleteWeightBackup
    \/ PutInjectionRule
    \/ DeleteInjectionSample
    \/ RestoreFromFile

SpecRestore == InitRestore /\ [][NextRestore]_vars

----------------------------------------------------------------------------
(* saveSettings step by step: the call reads the settings, and after the   *)
(* await it writes what it merged with what it read; other calls run in    *)
(* between                                                                  *)

MaxOverlappingSaves == 2   \* saveSettings calls in progress at a time

\* arguments that name different fields: the reminder of the menu, the
\* schedule of the settings view, the interval of the measurements
SavePartials ==
    { [reminderDow |-> Some(N(3)), reminderTime |-> <<8, 0>>],
      [weighDaysOfWeek |-> {N(2)}, injectionDayOfWeek |-> N(1)],
      [measureReminderEveryDays |-> N(30)],
      [measureReminderEveryDays |-> N(14)] }

\* const current = await getSettings()
SaveSettingsRead ==
    /\ Cardinality(saves) < MaxOverlappingSaves
    /\ \E partial \in SavePartials :
          /\ \A call \in saves : call.partial # partial
          /\ saves' = saves \cup {[partial |-> partial, current |-> getSettings(settings)]}
    /\ out' = NoOut
    /\ UNCHANGED <<clock, weights, injections, measures, settings, autoBackups, ticker, render>>

\* await put(STORE_SETTINGS, { key, value: cleaned }); return cleaned
SaveSettingsWrite ==
    /\ \E call \in saves :
          LET cleaned == cleanSettings(call.current, call.partial)
          IN /\ settings' = cleaned
             /\ saves' = saves \ {call}
             /\ out' = [op |-> "saveSettings", input |-> call.partial, val |-> cleaned]
    /\ UNCHANGED <<clock, weights, injections, measures, autoBackups, ticker, render>>

InitSaves ==
    /\ clock = HHmm(12, 0)
    /\ settings = cleanSettings(DEFAULTS, DEFAULTS)
    /\ weights = {}
    /\ injections = {}
    /\ measures = {}
    /\ out = NoOut
    /\ NoBackground

NextSaves ==
    \/ SaveSettingsRead
    \/ SaveSettingsWrite

SpecSaves == InitSaves /\ [][NextSaves]_vars

----------------------------------------------------------------------------
(* The checklist ticker: the interval started at load calls                *)
(* renderDashboardChecklist, which runs from await to await while records  *)
(* and settings are saved                                                  *)

\* the measurements entered: one a week ago and one today
TickerMeasures == {[id |-> <<d, 1>>, dateISO |-> d] : d \in {-7, 0}}

\* the schedules saved: measurements every week, weigh-ins on Monday,
\* Wednesday and Friday or on Tuesday
TickerSettingsInputs ==
    { [weighDaysOfWeek |-> {N(1), N(3), N(5)}, measureReminderEveryDays |-> N(7)],
      [weighDaysOfWeek |-> {N(2)}, measureReminderEveryDays |-> N(7)] }

\* what a getSettings and a buildChecklistCache of now return
recordsNow == [weights |-> weights, injections |-> injections, measures |-> measures]
cacheOfRecords(r) == cacheOf(r.weights, r.injections, r.measures)

\* setInterval: an id no interval set has, other than the one just cleared
newIntervalId ==
    CHOOSE id \in 1..(Cardinality(ticker.intervals) + 2) :
        /\ id \notin ticker.intervals
        /\ ticker.checklistIntervalId # Some(id)
        /\ \A lower \in 1..(id - 1) :
              lower \in ticker.intervals \/ ticker.checklistIntervalId = Some(lower)

StartChecklistTicker ==
    /\ LET cleared == IF ticker.checklistIntervalId # None
                      THEN ticker.intervals \ {ticker.checklistIntervalId[1]}
                      ELSE ticker.intervals
       IN ticker' = [ticker EXCEPT !.checklistIntervalId = Some(newIntervalId),
                                   !.intervals = cleared \cup {newIntervalId}]
    /\ out' = NoOut
    /\ UNCHANGED <<clock, weights, injections, measures, settings, autoBackups, render, saves>>

\* the user goes to another page and back
Navigate ==
    /\ \E route \in {"dashboard", "settings"} :
          /\ route # ticker.route
          /\ ticker' = [ticker EXCEPT !.route = route]
    /\ out' = NoOut
    /\ UNCHANGED <<clock, weights, injections, measures, settings, autoBackups, render, saves>>

PutMeasuresTicker ==
    /\ \E x \in TickerMeasures :
          /\ x \notin measures
          /\ measures' = put(measures, normalizeMeasures(x))
    /\ out' = NoOut
    /\ UNCHANGED <<clock, weights, injections, settings, background>>

SaveSettingsTicker ==
    /\ \E partial \in TickerSettingsInputs :
          /\ settings' = cleanSettings(getSettings(settings), partial)
          /\ settings' # settings
    /\ out' = NoOut
    /\ UNCHANGED <<clock, weights, injections, measures, background>>

\* the callback of an interval: off the dashboard it returns, on it it calls
\* renderDashboardChecklist() with no argument, which runs up to its first await
TickerFires ==
    /\ ticker.intervals # {}
    /\ render.pc = "idle"
    /\ IF ticker.route # "dashboard"
       THEN /\ out' = [op |-> "tick", called |-> "nothing"]
            /\ UNCHANGED render
       ELSE /\ render' = [ pc |-> "getSettings", called |-> "renderDashboardChecklist",
                           n |-> clock, reads |-> {}, snapshots |-> <<>> ]
            /\ out' = NoOut
    /\ UNCHANGED <<clock, weights, injections, measures, settings, autoBackups, ticker, saves>>

\* const s = settings || (await getSettings())
RenderGetSettings ==
    /\ render.pc = "getSettings"
    /\ render' = [ pc |-> "buildChecklistCache", called |-> render.called, n |-> render.n,
                   reads |-> render.reads \cup {"settings"}, snapshots |-> <<>>,
                   s |-> getSettings(settings) ]
    /\ out' = NoOut
    /\ UNCHANGED <<clock, weights, injections, measures, settings, autoBackups, ticker, saves>>

\* const c = cache || (await buildChecklistCache()), and the list of today
RenderBuildChecklistCache ==
    /\ render.pc = "buildChecklistCache"
    /\ render' = [ pc |-> "overdue.getSettings", called |-> render.called, n |-> render.n,
                   reads |-> render.reads \cup {"injections", "weights", "measures"},
                   snapshots |-> <<[settings |-> render.s, records |-> recordsNow]>>,
                   todayItems |-> buildChecklistForDate(startOfDay(render.n),
                                      cacheOfRecords(recordsNow), render.s, render.n) ]
    /\ out' = NoOut
    /\ UNCHANGED <<clock, weights, injections, measures, settings, autoBackups, ticker, saves>>

\* buildOverdueChecklist(7): const s = await getSettings()
OverdueGetSettings ==
    /\ render.pc = "overdue.getSettings"
    /\ render' = [ pc |-> "overdue.buildChecklistCache", called |-> render.called,
                   n |-> render.n, reads |-> render.reads, snapshots |-> render.snapshots,
                   todayItems |-> render.todayItems, s |-> getSettings(settings) ]
    /\ out' = NoOut
    /\ UNCHANGED <<clock, weights, injections, measures, settings, autoBackups, ticker, saves>>

\* buildOverdueChecklist(7): const c = await buildChecklistCache(), and the list
OverdueBuildChecklistCache ==
    /\ render.pc = "overdue.buildChecklistCache"
    /\ render' = [ pc |-> "upcoming.getSettings", called |-> render.called,
                   n |-> render.n, reads |-> render.reads,
                   snapshots |-> Append(render.snapshots,
                                        [settings |-> render.s, records |-> recordsNow]),
                   todayItems |-> render.todayItems,
                   overdueItems |-> sortByDateKeyDesc(overdueFrom(1, 7, startOfDay(clock),
                                        cacheOfRecords(recordsNow), render.s)) ]
    /\ out' = NoOut
    /\ UNCHANGED <<clock, weights, injections, measures, settings, autoBackups, ticker, saves>>

\* buildUpcomingChecklist(7): const s = await getSettings()
UpcomingGetSettings ==
    /\ render.pc = "upcoming.getSettings"
    /\ render' = [ pc |-> "upcoming.buildChecklistCache", called |-> render.called,
                   n |-> render.n, reads |-> render.reads, snapshots |-> render.snapshots,
                   todayItems |-> render.todayItems, overdueItems |-> render.overdueItems,
                   s |-> getSettings(settings) ]
    /\ out' = NoOut
    /\ UNCHANGED <<clock, weights, injections, measures, settings, autoBackups, ticker, saves>>

\* buildUpcomingChecklist(7): const c = await buildChecklistCache(), the list,
\* and the end of renderDashboardChecklist
UpcomingBuildChecklistCache ==
    /\ render.pc = "upcoming.buildChecklistCache"
    /\ out' = [ op |-> "renderDashboardChecklist", n |-> render.n, reads |-> render.reads,
                snapshots |-> Append(render.snapshots,
                                     [settings |-> render.s, records |-> recordsNow]),
                todayItems |-> render.todayItems, overdueItems |-> render.overdueItems,
                upcoming |-> upcomingFrom(1, 7, startOfDay(clock),
                                          cacheOfRecords(recordsNow), render.s) ]
    /\ render' = NoRender
    /\ UNCHANGED <<clock, weights, injections, measures, settings, autoBackups, ticker, saves>>

\* a Thursday at noon, measurements due every week, the last a week ago
InitTicker ==
    /\ clock = HHmm(12, 0)
    /\ settings = cleanSettings(DEFAULTS, [measureReminderEveryDays |-> N(7)])
    /\ weights = {}
    /\ injections = {}
    /\ measures = {}
    /\ out = NoOut
    /\ NoBackground

NextTicker ==
    \/ StartChecklistTicker
    \/ Navigate
    \/ PutMeasuresTicker
    \/ DeleteMeasures
    \/ SaveSettingsTicker
    \/ TickerFires
    \/ RenderGetSettings
    \/ RenderBuildChecklistCache
    \/ OverdueGetSettings
    \/ OverdueBuildChecklistCache
    \/ UpcomingGetSettings
    \/ UpcomingBuildChecklistCache

SpecTicker == InitTicker /\ [][NextTicker]_vars

----------------------------------------------------------------------------
(* What the computations do to the arrays and the settings object they are *)
(* given.  A computation is the list of the operations it carries out on   *)
(* arrays and objects, each on one it was given ("weights", "injections",  *)
(* "measures", "settings") or on one it made itself ("own"): sort and      *)
(* assign change their receiver, filter, spread, map and the reads return  *)
(* a new array or a value and leave the receiver as it is.                 *)

applyOperation(data, o) ==
    IF o.on = "own" THEN data
    ELSE IF o.op = "sortByDateTimeAsc" THEN [data EXCEPT ![o.on] = sortByDateTimeAsc(@)]
    ELSE IF o.op = "sortByDateTimeDesc" THEN [data EXCEPT ![o.on] = sortByDateTimeDesc(@)]
    ELSE IF o.op = "sortByDateDesc" THEN [data EXCEPT ![o.on] = sortByDateDesc(@)]
    ELSE IF o.op = "assign" THEN [data EXCEPT ![o.on] = [@ EXCEPT ![o.field] = o.value]]
    ELSE data

RECURSIVE applyOperations(_, _)
applyOperations(data, operations) ==
    IF operations = <<>> THEN data
    ELSE applyOperations(applyOperation(data, Head(operations)), Tail(operations))

\* a plateau rule that sorts the array of the cache
buildLocalInsightsOperations_SortsTheCache ==
    << [on |-> "weights", op |-> "sortByDateTimeAsc"],
       [on |-> "weights", op |-> "filter"],
       [on |-> "own", op |-> "map"],
       [on |-> "weights", op |-> "spread"],
       [on |-> "own", op |-> "sortByDateTimeAsc"],
       [on |-> "settings", op |-> "read"],
       [on |-> "own", op |-> "filter"],
       [on |-> "injections", op |-> "spread"],
       [on |-> "own", op |-> "sortByDateTimeDesc"],
       [on |-> "injections", op |-> "spread"],
       [on |-> "own", op |-> "sortByDateTimeDesc"] >>

buildLocalInsightsOperations ==
    << [on |-> "weights", op |-> "filter"],
       [on |-> "own", op |-> "sortByDateTimeAsc"],
       [on |-> "own", op |-> "map"],
       [on |-> "weights", op |-> "spread"],
       [on |-> "own", op |-> "sortByDateTimeAsc"],
       [on |-> "settings", op |-> "read"],
       [on |-> "own", op |-> "filter"],
       [on |-> "injections", op |-> "spread"],
       [on |-> "own", op |-> "sortByDateTimeDesc"],
       [on |-> "injections", op |-> "spread"],
       [on |-> "own", op |-> "sortByDateTimeDesc"] >>

\* buildChecklistForDate, computeMeasuresDueDateKey and the three lookups of
\* the key sets
buildChecklistForDateOperations ==
    << [on |-> "settings", op |-> "read"], [on |-> "own", op |-> "push"] >>

\* buildChecklistCache sorts a copy of the measurements; the items that are
\* marked late and the list that is sorted are those the computation made
buildOverdueChecklistOperations ==
    << [on |-> "measures", op |-> "spread"],
       [on |-> "own", op |-> "sortByDateDesc"] >>
    \o buildChecklistForDateOperations
    \o << [on |-> "own", op |-> "assign", field |-> "status", value |-> "late"],
          [on |-> "own", op |-> "assign", field |-> "warnAfterCutoff", value |-> FALSE],
          [on |-> "own", op |-> "push"],
          [on |-> "own", op |-> "sortByDateKeyDesc"] >>

countStreakOperations == << [on |-> "settings", op |-> "read"] >>

renderWeeklyConsistencyOperations ==
    << [on |-> "settings", op |-> "read"], [on |-> "own", op |-> "push"],
       [on |-> "own", op |-> "filter"] >>
    \o countStreakOperations \o countStreakOperations

computeScheduleAdherenceForRangeOperations ==
    << [on |-> "settings", op |-> "read"], [on |-> "weights", op |-> "read"],
       [on |-> "injections", op |-> "read"] >>

FrameFunctions ==
    {"buildLocalInsights", "buildChecklistForDate", "buildOverdueChecklist",
     "countStreakWeights", "countStreakInjections", "renderWeeklyConsistency",
     "computeScheduleAdherenceForRange"}

operationsOf(fn) ==
    CASE fn = "buildLocalInsights" -> buildLocalInsightsOperations
      [] fn = "buildChecklistForDate" -> buildChecklistForDateOperations
      [] fn = "buildOverdueChecklist" -> buildOverdueChecklistOperations
      [] fn \in {"countStreakWeights", "countStreakInjections"} -> countStreakOperations
      [] fn = "renderWeeklyConsistency" -> renderWeeklyConsistencyOperations
      [] fn = "computeScheduleAdherenceForRange" ->
            computeScheduleAdherenceForRangeOperations

\* what fn returns of the lists and settings of data
valueOf(fn, data) ==
    LET c == cacheOf(elementsOf(data.weights), elementsOf(data.injections),
                     elementsOf(data.measures))
        s == data.settings
    IN CASE fn = "buildLocalInsights" ->
              buildLocalInsights(cacheOfLists(data.weights, data.injections), s)
         [] fn = "buildChecklistForDate" -> buildChecklistForDate(startOfDay(clock), c, s, clock)
         [] fn = "buildOverdueChecklist" -> buildOverdueChecklist(7)
         [] fn = "countStreakWeights" -> countStreakWeights(c, s, DefaultMaxLookbackDays)
         [] fn = "countStreakInjections" -> countStreakInjections(c, s, DefaultMaxWeeks)
         [] fn = "renderWeeklyConsistency" -> renderWeeklyConsistency(c, s, 0)
         [] fn = "computeScheduleAdherenceForRange" ->
              computeScheduleAdherenceForRange(30, s, data)

\* the orders in which getAll can return the measurements
getAllMeasuresOrders(store) == {byDate(store), reverseOf(byDate(store))}

\* a computation is called with what getAll and getSettings return; given is
\* what it is handed, left is what the caller holds once it has returned
CallComputation ==
    /\ \E fn \in FrameFunctions, ws \in getAllOrders(weights),
          is \in getAllOrders(injections), ms \in getAllMeasuresOrders(measures) :
          LET data == [weights |-> ws, injections |-> is, measures |-> ms,
                       settings |-> getSettings(settings)]
          IN out' = [ op |-> "computation", fn |-> fn, given |-> data,
                      left |-> applyOperations(data, operationsOf(fn)),
                      val |-> valueOf(fn, data) ]
    /\ UNCHANGED <<clock, weights, injections, measures, settings, background>>

\* measurements entered a week ago and today
PutMeasuresFrame ==
    /\ \E d \in {-7, 0} :
          /\ \A x \in measures : x.dateISO # d
          /\ measures' = put(measures, normalizeMeasures([id |-> <<d, 1>>, dateISO |-> d]))
    /\ out' = NoOut
    /\ UNCHANGED <<clock, weights, injections, settings, background>>

NextFrame ==
    \/ PutWeightSummary
    \/ DeleteWeight
    \/ PutInjectionSummary
    \/ DeleteInjection
    \/ PutMeasuresFrame
    \/ DeleteMeasures
    \/ CallComputation

SpecFrame == InitSummary /\ [][NextFrame]_vars

----------------------------------------------------------------------------
(* Claims about the checklist *)

kindsOf(items) == {items[i].kind : i \in 1..Len(items)}

itemsOfKind(items, kind) == {i \in 1..Len(items) : items[i].kind = kind}

hasRequired(entries, dateKey, kind) ==
    \E e \in 1..Len(entries) :
        /\ entries[e].dateKey = dateKey
        /\ \E i \in 1..Len(entries[e].items) :
               /\ entries[e].items[i].kind = kind
               /\ entries[e].items[i].required

\* the scenario of C1: default schedule, a Thursday, an empty store
C1_Scenario ==
    /\ settings.weighDaysOfWeek = {N(1), N(3), N(5)}
    /\ settings.injectionDayOfWeek = N(6)
    /\ settings.measureReminderEveryDays = N(14)
    /\ getDay(clock) = 4
    /\ weights = {} /\ injections = {} /\ measures = {}

C1_Upcoming ==
    (out.op = "upcoming" /\ out.days = 3) =>
        /\ hasRequired(out.val, today + 1, "weight")
        /\ hasRequired(out.val, today + 2, "injection")

\* C1 as stated: in the scenario buildChecklistForDate(today) returns an empty
\* list, and buildUpcomingChecklist(3) holds Friday's required weight item and
\* Saturday's required injection item.
C1_AsStated ==
    C1_Scenario =>
        /\ (out.op = "checklistForDate" /\ out.date = today) => out.val = <<>>
        /\ C1_Upcoming

\* C1 amended: in the scenario buildChecklistForDate(today) returns no required
\* item; it returns exactly one item, the optional measurement reminder (never
\* measured, so due today), not done and pending; buildUpcomingChecklist(3)
\* holds Friday's required weight item and Saturday's required injection item.
C1_TodayOnlyOptionalMeasures ==
    C1_Scenario =>
        /\ (out.op = "checklistForDate" /\ out.date = today) =>
              /\ Len(out.val) = 1
              /\ out.val[1].kind = "measures"
              /\ ~out.val[1].required
              /\ ~out.val[1].done
              /\ out.val[1].status = "pending"
        /\ C1_Upcoming

C1_Witness ==
    /\ C1_Scenario
    /\ out.op = "checklistForDate"
    /\ out.date = today
    /\ Len(out.val) = 1

C1_WitnessUpcoming ==
    /\ C1_Scenario
    /\ out.op = "upcoming"
    /\ out.days = 3
    /\ Len(out.val) = 2

measuresDueOf(ms, every, todayKey) ==
    IF ms = {} THEN todayKey
    ELSE LET last == CHOOSE k \in {m.dateISO : m \in ms} :
                         \A m \in ms : m.dateISO <= k
         IN IF last + every < todayKey THEN todayKey ELSE last + every

CheckedDates == (today - 8)..(today + 9)

\* C10: buildChecklistForDate(date) holds a weight item iff date's weekday is a
\* weigh day, an injection item iff it is the injection day, a measurement item
\* iff date is the measurement due date, and at most one item of each kind.
C10_ItemsIffScheduled ==
    \A d \in CheckedDates :
        LET items == buildChecklistForDate(addDays(0, d) + HHmm(0, 0),
                                           buildChecklistCache, settings, clock)
        IN /\ ("weight" \in kindsOf(items))
                 <=> (N(getDay(addDays(0, d))) \in settings.weighDaysOfWeek)
           /\ ("injection" \in kindsOf(items))
                 <=> (N(getDay(addDays(0, d))) = settings.injectionDayOfWeek)
           /\ ("measures" \in kindsOf(items))
                 <=> (d = measuresDueOf(measures,
                                        daysOf(settings.measureReminderEveryDays), today))
           /\ \A k \in {"weight", "injection", "measures"} :
                 Cardinality(itemsOfKind(items, k)) <= 1
           /\ kindsOf(items) \subseteq {"weight", "injection", "measures"}

\* one day carrying the three items at once
C10_Witness ==
    /\ out.op = "checklistForDate"
    /\ kindsOf(out.val) = {"weight", "injection", "measures"}
    /\ Len(out.val) = 3

\* the date keys of the records of a kind
recordKeys(kind) ==
    IF kind = "weight" THEN {getLocalDateKey(w.dateTimeISO) : w \in weights}
    ELSE IF kind = "injection" THEN {getLocalDateKey(i.dateTimeISO) : i \in injections}
    ELSE {m.dateISO : m \in measures}

\* the items of the lists buildChecklistForDate returned to the last call:
\* the list of one date, or the lists of the days of an upcoming list
returnedItems ==
    IF out.op = "checklistForDate" THEN {out.val[i] : i \in 1..Len(out.val)}
    ELSE IF out.op = "upcoming"
    THEN UNION {{out.val[e].items[i] : i \in 1..Len(out.val[e].items)} :
                    e \in 1..Len(out.val)}
    ELSE {}

\* C11: every item buildChecklistForDate returns is done iff some record of
\* its kind has the item's date key, and its status is 'done' iff it is done,
\* 'late' iff it is not done and its date key is before today's, and 'pending'
\* otherwise.
C11_DoneAndStatus ==
    \A it \in returnedItems :
       /\ it.done <=> (it.dateKey \in recordKeys(it.kind))
       /\ it.status \in {"done", "late", "pending"}
       /\ (it.status = "done") <=> it.done
       /\ (it.status = "late") <=> (~it.done /\ it.dateKey < today)

\* the list of yesterday holds an item that is done and the list of today or
\* of yesterday one that is not: a past day's item done, not late
C11_Witness ==
    /\ out.op = "checklistForDate"
    /\ out.date = today - 1
    /\ \E i \in 1..Len(out.val) : out.val[i].done /\ out.val[i].status = "done"
    /\ \E i \in 1..Len(out.val) : ~out.val[i].done /\ out.val[i].status = "late"

\* an open item of today is pending
C11_WitnessPending ==
    /\ out.op = "checklistForDate"
    /\ out.date = today
    /\ \E i \in 1..Len(out.val) : out.val[i].required /\ out.val[i].status = "pending"

warns(it) == "warnAfterCutoff" \in DOMAIN it /\ it.warnAfterCutoff

\* C12: an item buildChecklistForDate returns warns after the cutoff only if
\* it is of today, required, not done, and the local time is 12:00 or later;
\* a required item of which all this is true does warn; no item of another
\* day and no measurement item warns.
C12_WarnAfterCutoff ==
    \A it \in returnedItems :
       /\ warns(it) => /\ it.dateKey = today
                       /\ it.required
                       /\ ~it.done
                       /\ clock - startOfDay(clock) >= HHmm(12, 0)
       /\ ( /\ it.required
            /\ it.dateKey = today
            /\ ~it.done
            /\ clock - startOfDay(clock) >= HHmm(12, 0) ) => warns(it)
       /\ it.kind = "measures" => ~warns(it)

\* at 12:00 sharp the open required item of today warns
C12_Witness ==
    /\ out.op = "checklistForDate"
    /\ out.date = today
    /\ clock - startOfDay(clock) = HHmm(12, 0)
    /\ \E i \in 1..Len(out.val) : warns(out.val[i])

\* a minute before the cutoff it does not
C12_WitnessBeforeCutoff ==
    /\ out.op = "checklistForDate"
    /\ out.date = today
    /\ clock - startOfDay(clock) = HHmm(11, 59)
    /\ \E i \in 1..Len(out.val) :
          out.val[i].required /\ ~out.val[i].done /\ ~warns(out.val[i])

\* the kind and date of the required items not done that buildChecklistForDate
\* returns for the days today-1 .. today-daysBack
openRequired(daysBack) ==
    UNION { LET items == buildChecklistForDate(addDays(0, d), buildChecklistCache,
                                               settings, clock)
            IN {<<items[i].kind, items[i].dateKey>> :
                   i \in {j \in 1..Len(items) : items[j].required /\ ~items[j].done}}
            : d \in (today - daysBack)..(today - 1) }

\* C13: buildOverdueChecklist(daysBack) returns exactly the required items not
\* done that buildChecklistForDate returns for the days today-1 ..
\* today-daysBack, each once, with status 'late' and without the cutoff
\* warning, the latest date first; no item of today or later, no measurement
\* item, no item that is done.
C13_OverdueExactlyOpenRequired ==
    out.op = "overdue" =>
       /\ {<<out.val[i].kind, out.val[i].dateKey>> : i \in 1..Len(out.val)}
              = openRequired(out.days)
       /\ Len(out.val) = Cardinality(openRequired(out.days))
       /\ \A i \in 1..Len(out.val) :
             /\ out.val[i].status = "late"
             /\ out.val[i].warnAfterCutoff = FALSE
             /\ out.val[i].required
             /\ ~out.val[i].done
             /\ out.val[i].dateKey \notin recordKeys(out.val[i].kind)
             /\ out.val[i].dateKey < today
             /\ out.val[i].dateKey >= today - out.days
             /\ out.val[i].kind # "measures"
       /\ \A i, j \in 1..Len(out.val) :
             i < j => out.val[i].dateKey >= out.val[j].dateKey

\* an overdue list of several days, while a past day has an item that is done
\* and therefore left out
C13_Witness ==
    /\ out.op = "overdue"
    /\ Len(out.val) >= 2
    /\ out.val[1].dateKey > out.val[Len(out.val)].dateKey
    /\ \E d \in (today - out.days)..(today - 1) :
          /\ d \in recordKeys("weight")
          /\ N(getDay(addDays(0, d))) \in settings.weighDaysOfWeek

\* the due date of the measurement reminder as the checklist computes it now
dueNow == computeMeasuresDueDateKey(buildChecklistCache, settings, today)

\* the cadence of the measurement reminder, in days
cadence == daysOf(settings.measureReminderEveryDays)

\* the dates of the measurement records later than which none is
latestMeasured == {m.dateISO : m \in {n \in measures : \A o \in measures : o.dateISO <= n.dateISO}}

\* C14: computeMeasuresDueDateKey is never before today: it is today when
\* there is no measurement record, the date of the latest measurement plus the
\* cadence when that is today or later, and today otherwise.  So, while no
\* measurement is recorded, a due date that has been reached is the current
\* day on every later day, and once a measurement is recorded that is the
\* latest one and whose date plus the cadence is not before today, the due
\* date is that date plus the cadence.
C14_DueSticksToToday ==
    /\ [] /\ dueNow >= today
          /\ measures = {} => dueNow = today
          /\ \A last \in latestMeasured :
                dueNow = IF last + cadence >= today THEN last + cadence ELSE today
    /\ [][ /\ ( /\ dueNow = today
                 /\ today' > today
                 /\ measures' = measures )
              => dueNow' = today'
           /\ \A m \in measures' \ measures :
                 ( /\ \A o \in measures : o.dateISO <= m.dateISO
                   /\ m.dateISO + cadence >= today )
                 => dueNow' = m.dateISO + cadence ]_vars

\* a measurement older than the cadence: the reminder is listed today, on the
\* day after the first day it was due
C14_Witness ==
    /\ out.op = "checklistForDate"
    /\ out.date = today
    /\ "measures" \in kindsOf(out.val)
    /\ \E last \in latestMeasured : last + cadence < today
    /\ today > 0

\* a measurement was recorded and the reminder moved a cadence beyond it
C14_WitnessMoved ==
    /\ Cardinality(measures) = 2
    /\ \E last \in latestMeasured : dueNow = last + cadence /\ dueNow > today

\* the weight items of the list a checklist builder returned
weightItemsOf(o) ==
    IF o.op \in {"checklistForDate", "overdue"}
    THEN {o.val[i] : i \in {j \in 1..Len(o.val) : o.val[j].kind = "weight"}}
    ELSE IF o.op = "upcoming"
    THEN UNION {itemsOfKind(o.val[i].items, "weight") : i \in 1..Len(o.val)}
    ELSE {}

\* C16: when the set of weigh-in days the user configured is empty, none of
\* buildChecklistForDate, buildUpcomingChecklist and buildOverdueChecklist
\* returns a weight item: here for the lists built right after the settings
\* were saved with no weigh-in day chosen.
C16_AsStated ==
    [][ ( /\ out.op = "saveSettings"
          /\ out.input.weighDaysOfWeek = {}
          /\ out'.op \in {"checklistForDate", "upcoming", "overdue"} )
        => weightItemsOf(out') = {} ]_vars

\* C18: the persisted settings have injectionDayOfWeek a whole number in 0..6,
\* weighDaysOfWeek a duplicate-free list of whole numbers in 0..6 and
\* measureReminderEveryDays a whole number >= 7, whatever was saved.
C18_AsStated ==
    LET weekdays == {N(w) : w \in 0..6}
    IN /\ settings.injectionDayOfWeek \in weekdays
       /\ settings.weighDaysOfWeek \subseteq weekdays
       /\ settings.measureReminderEveryDays % 2 = 0
       /\ settings.measureReminderEveryDays >= N(7)

----------------------------------------------------------------------------
(* Claims about the schedule resolvers *)

\* the instant x falls on weekday w (a whole number held in halves) at HH:mm
isSlot(x, w, timeHHmm) ==
    /\ N(getDay(x)) = w
    /\ x - startOfDay(x) = HHmm(timeHHmm[1], timeHHmm[2])

\* r is the first instant after from that falls on weekday w at HH:mm, at most
\* 7 days later, and one week later when from is itself such an instant
isNextSlotAfter(r, from, w, timeHHmm) ==
    /\ r > from
    /\ isSlot(r, w, timeHHmm)
    /\ r - from <= 7 * MinutesPerDay
    /\ \A d \in getLocalDateKey(from)..getLocalDateKey(r) :
          LET x == parseDateKeyToLocalDate(d, timeHHmm)
          IN (isSlot(x, w, timeHHmm) /\ x > from) => x >= r
    /\ isSlot(from, w, timeHHmm) => r = addDays(from, 7)

\* C15: for every weekday 0..6, time HH:mm and instant from,
\* computeNextScheduledDateTime and computeNextReminderDate return an instant
\* after from on that weekday at that time, at most 7 days after from, with no
\* such instant strictly between; asked from exactly a slot they return the
\* slot one week later.
C15_NextSlotStrictlyAfter ==
    /\ out.op = "nextScheduled"
         => isNextSlotAfter(out.val, clock, settings.injectionDayOfWeek,
                            settings.injectionTime)
    /\ ( /\ out.op = "nextReminder"
         /\ settings.reminderDow \in {Some(N(w)) : w \in 0..6} )
         => /\ out.val # None
            /\ isNextSlotAfter(out.val[1], clock, settings.reminderDow[1],
                               settings.reminderTime)

\* asked at the very minute of today's slot: the slot of next week
C15_Witness ==
    /\ out.op = "nextScheduled"
    /\ isSlot(clock, settings.injectionDayOfWeek, settings.injectionTime)
    /\ out.val = addDays(clock, 7)

\* asked one minute after today's reminder slot: six days and 23:59 later
C15_WitnessReminder ==
    /\ out.op = "nextReminder"
    /\ settings.reminderDow # None
    /\ isSlot(clock - 1, settings.reminderDow[1], settings.reminderTime)
    /\ out.val = Some(addDays(clock, 7) - 1)

----------------------------------------------------------------------------
(* Claims about settings that lack fields *)

\* C17: handed a settings object that lacks some of its optional fields, each
\* of buildChecklistForDate, computeMeasuresDueDateKey,
\* computeNextScheduledDateTime, countStreakWeights and countStreakInjections
\* returns what it returns for the object with the documented default in the
\* place of every absent field.
C17_AsStated ==
    LET filled == getSettings(settings)
    IN /\ out.op = "checklistForDate"
            => out.val = buildChecklistForDate(addDays(0, out.date), buildChecklistCache,
                                               filled, clock)
       /\ out.op = "measuresDue"
            => out.val = computeMeasuresDueDateKey(buildChecklistCache, filled, today)
       /\ out.op = "nextScheduled"
            => out.val = computeNextScheduledDateTime(filled, clock)
       /\ out.op = "streakWeights"
            => out.val = countStreakWeights(buildChecklistCache, filled,
                                            DefaultMaxLookbackDays)
       /\ out.op = "streakInjections"
            => out.val = countStreakInjections(buildChecklistCache, filled, DefaultMaxWeeks)

----------------------------------------------------------------------------
(* Claims about the summaries *)

\* the records of a store that lie in the window of the summary returned
inWindow(store, instantOf(_)) ==
    {r \in store : instantOf(r) >= clock - out.val.days * MinutesPerDay}

instantOfRecord(r) == r.dateTimeISO

instantOfMeasures(r) == parseDateKeyToLocalDate(r.dateISO, <<0, 0>>)

\* C19: with fewer than 2 records in the window, computeWeightTrend returns
\* deltaKg = null and perWeekKg = null, computeInjectionRegularity returns
\* meanDays = null and onTimeRate = null, and computeMeasuresDelta returns
\* deltas = null: never a 0 and never a trend of a single sample.  (With 2 or
\* more, none of these is null.)
C19_NullBelowTwoRecords ==
    out.op = "summary" =>
        /\ LET few == Cardinality(inWindow(weights, instantOfRecord)) < 2
           IN /\ few <=> out.val.wtTrend.deltaKg = None
              /\ few <=> out.val.wtTrend.perWeekKg = None
              /\ few => out.val.wtTrend.start = None /\ out.val.wtTrend.end = None
        /\ LET few == Cardinality(inWindow(injections, instantOfRecord)) < 2
           IN /\ few <=> out.val.injReg.meanDays = None
              /\ few <=> out.val.injReg.onTimeRate = None
        /\ LET few == Cardinality(inWindow(measures, instantOfMeasures)) < 2
           IN /\ few <=> out.val.msDelta.deltas = None
              /\ few => out.val.msDelta.start = None /\ out.val.msDelta.end = None

\* a single weigh-in, a single injection and a single measurement in the
\* window, older ones outside it
C19_Witness ==
    /\ out.op = "summary"
    /\ Cardinality(weights) = 2
    /\ Cardinality(inWindow(weights, instantOfRecord)) = 1
    /\ Cardinality(inWindow(injections, instantOfRecord)) = 1
    /\ Cardinality(inWindow(measures, instantOfMeasures)) = 1
    /\ out.val.wtTrend.deltaKg = None
    /\ out.val.injReg.meanDays = None
    /\ out.val.msDelta.deltas = None

\* nothing in the window at all, two of each outside or absent
C19_WitnessEmptyWindow ==
    /\ out.op = "summary"
    /\ weights # {}
    /\ inWindow(weights, instantOfRecord) = {}
    /\ out.val.wtTrend.perWeekKg = None

\* the measurement of the window handed in that the deltas start from: of those
\* of the earliest date, the one the list has first; and the one they end at:
\* of those of the latest date, the one the list has last
startOf(list) ==
    list[CHOOSE i \in DOMAIN list :
            /\ \A j \in DOMAIN list : list[j].dateISO >= list[i].dateISO
            /\ \A j \in DOMAIN list : list[j].dateISO = list[i].dateISO => j >= i]

endOf(list) ==
    list[CHOOSE i \in DOMAIN list :
            /\ \A j \in DOMAIN list : list[j].dateISO <= list[i].dateISO
            /\ \A j \in DOMAIN list : list[j].dateISO = list[i].dateISO => j <= i]

labelOf(k) == fields[CHOOSE i \in DOMAIN fields : fields[i][1] = k][2]

\* C20: for a window of at least 2 measurement records, computeMeasuresDelta
\* has for a body field the entry (field of the record of the latest date) -
\* (field of the record of the earliest date) exactly when the field is not
\* null in both of these records, and no entry for any other field.  (Of
\* several records of the earliest date the one the list has first is taken,
\* of several of the latest date the one it has last.)
C20_DeltaOfFieldsInBothEnds ==
    (out.op = "summary" /\ Len(out.val.measures) >= 2) =>
        LET first == startOf(out.val.measures)
            last == endOf(out.val.measures)
        IN /\ elementsOf(out.val.measures) = inWindow(measures, instantOfMeasures)
           /\ out.val.msDelta.deltas # None
           /\ out.val.msDelta.start = Some(first)
           /\ out.val.msDelta.end = Some(last)
           /\ \A k \in BodyFields :
                 LET deltas == out.val.msDelta.deltas[1]
                 IN IF first[k] # None /\ last[k] # None
                    THEN /\ labelOf(k) \in DOMAIN deltas
                         /\ deltas[labelOf(k)] = last[k][1] - first[k][1]
                    ELSE labelOf(k) \notin DOMAIN deltas
           /\ DOMAIN out.val.msDelta.deltas[1] \subseteq {labelOf(k) : k \in BodyFields}

\* three measurements in the window; the waist, measured at both ends, has an
\* entry (0: the same value), the hip, measured only at the start, has none
C20_Witness ==
    /\ out.op = "summary"
    /\ Len(out.val.measures) = 3
    /\ out.val.msDelta.deltas # None
    /\ DOMAIN out.val.msDelta.deltas[1] = {"Cintura", "Pescoco"}
    /\ out.val.msDelta.deltas[1]["Cintura"] = 0
    /\ out.val.msDelta.deltas[1]["Pescoco"] = -5

\* two measurements with no field measured in both: an empty object
C20_WitnessNothingCompared ==
    /\ out.op = "summary"
    /\ Len(out.val.measures) = 2
    /\ out.val.msDelta.deltas = Some(<<>>)

----------------------------------------------------------------------------
(* Claims about the weigh-in streak *)

weightKeysNow == {getLocalDateKey(w.dateTimeISO) : w \in weights}

isWeighDay(d) == N((d + 4) % 7) \in settings.weighDaysOfWeek

\* the days the backward scan covers, today included
lookbackDays == (today - DefaultMaxLookbackDays + 1)..today

\* the scheduled days of the lookback without a weight record
missedDays == {d \in lookbackDays : isWeighDay(d) /\ d \notin weightKeysNow}

\* the scheduled day of the lookback without a weight record that no later
\* such day follows: the day that ends the backward scan, if any
scanEnds ==
    {g \in lookbackDays :
        /\ isWeighDay(g) /\ g \notin weightKeysNow
        /\ \A h \in (g + 1)..today : isWeighDay(h) => h \in weightKeysNow}

streakNow == countStreakWeights(buildChecklistCache, settings, DefaultMaxLookbackDays)

\* C8: countStreakWeights is the number of scheduled weigh-in days, among the
\* 120 days ending today, that come after the latest scheduled day without a
\* weight record (all of them when no scheduled day is missed): unscheduled days
\* do not break the streak and records older than the first gap do not count.
C8_StreakIsRunBeforeFirstGap ==
    \E missed \in {missedDays} :
       streakNow = Cardinality({d \in lookbackDays :
                                   /\ isWeighDay(d)
                                   /\ \A g \in missed : g < d})

\* a streak that stops at a gap, with older weigh-ins behind the gap and an
\* unscheduled day inside the counted run
C8_Witness ==
    /\ out.op = "streakWeights"
    /\ out.val >= 1
    /\ missedDays # {}
    /\ \E g \in scanEnds :
          /\ \E d \in weightKeysNow : isWeighDay(d) /\ d < g
          /\ \E d \in lookbackDays : ~isWeighDay(d) /\ d > g

\* the lookback ends the count: a weigh-in older than 120 days is not counted
C8_WitnessLookback ==
    /\ out.op = "streakWeights"
    /\ missedDays = {}
    /\ out.val > 0
    /\ \E d \in weightKeysNow : d < today - DefaultMaxLookbackDays + 1

\* this step adds one weight record, dated the scheduled day g
addedOn(g) ==
    /\ weights \subseteq weights'
    /\ \E w \in weights' \ weights :
          /\ weights' = weights \cup {w}
          /\ getLocalDateKey(w.dateTimeISO) = g

\* the latest scheduled day of the lookback, if any
latestScheduled ==
    {d \in lookbackDays : isWeighDay(d) /\ \A e \in (d + 1)..today : ~isWeighDay(e)}

\* this step removes the last weight record of the day latest
removedAllOn(latest) ==
    /\ weights' \subseteq weights
    /\ \E w \in weights \ weights' : getLocalDateKey(w.dateTimeISO) = latest
    /\ \A w \in weights' : getLocalDateKey(w.dateTimeISO) # latest

\* the scheduled day before g is inside the lookback and has a weight record
earlierRunBehind(g) ==
    \E d \in lookbackDays :
       /\ d < g
       /\ isWeighDay(d)
       /\ \A e \in (d + 1)..(g - 1) : ~isWeighDay(e)
       /\ d \in weightKeysNow

\* C4 as stated: a weight record added on the scheduled day that ends the
\* backward scan makes countStreakWeights exactly the prior value + 1, and
\* removing the records of the latest scheduled day makes it 0.
C4_AsStated ==
    [][ /\ \A g \in scanEnds : addedOn(g) => out'.val = streakNow + 1
        /\ \A latest \in latestScheduled : removedAllOn(latest) => out'.val = 0 ]_vars

\* C4 amended: a weight record added on the scheduled day that ends the
\* backward scan makes countStreakWeights at least the prior value + 1, and
\* exactly the prior value + 1 iff the scheduled day before it has no weight
\* record or lies outside the 120-day lookback (otherwise the weigh-ins behind
\* the filled gap join the streak); removing the records of the latest
\* scheduled day makes it 0.
C4_StreakGrowsByAtLeastOne ==
    [][ /\ \A g \in scanEnds :
              addedOn(g) =>
                 /\ out'.op = "saveWeight"
                 /\ out'.val >= streakNow + 1
                 /\ (out'.val = streakNow + 1) <=> ~earlierRunBehind(g)
        /\ \A latest \in latestScheduled :
              removedAllOn(latest) =>
                 /\ out'.op = "deleteWeight"
                 /\ out'.val = 0 ]_vars

\* a weigh-in was just saved on the scheduled day that ended the scan, and the
\* weigh-ins behind the filled gap joined the streak
C4_Witness ==
    /\ out.op = "saveWeight"
    /\ isWeighDay(out.date)
    /\ Cardinality({w \in weights : getLocalDateKey(w.dateTimeISO) = out.date}) = 1
    /\ \A d \in (out.date + 1)..today : isWeighDay(d) => d \in weightKeysNow
    /\ \E d \in weightKeysNow : isWeighDay(d) /\ d < out.date
    /\ out.val >= 3

\* the weigh-ins of the latest scheduled day were just deleted
C4_WitnessRemoved ==
    /\ out.op = "deleteWeight"
    /\ isWeighDay(out.date)
    /\ out.date \notin weightKeysNow
    /\ \A d \in (out.date + 1)..today : ~isWeighDay(d)
    /\ \E d \in weightKeysNow : isWeighDay(d) /\ d < out.date
    /\ out.val = 0

----------------------------------------------------------------------------
(* Claims about the weekly consistency card *)

injectionKeysNow == {getLocalDateKey(i.dateTimeISO) : i \in injections}

\* the Monday on or before today
thisMonday == CHOOSE d \in (today - 6)..today : (d + 4) % 7 = 1

\* the days of the week shown with offset weekOffset
shownWeek(weekOffset) == (thisMonday - 7 * weekOffset)..(thisMonday - 7 * weekOffset + 6)

\* the expected weigh-in days and the expected injection day (at most one) of a week
expectedWeighDays(week) == {d \in week : isWeighDay(d)}
expectedInjectionDays(week) == {d \in week : N((d + 4) % 7) = settings.injectionDayOfWeek}

expectedPointsOf(week) ==
    Cardinality(expectedWeighDays(week))
        + (IF expectedInjectionDays(week) # {} THEN 2 ELSE 0)

donePointsOf(week) ==
    Cardinality(expectedWeighDays(week) \cap weightKeysNow)
        + (IF expectedInjectionDays(week) \cap injectionKeysNow # {} THEN 2 ELSE 0)

\* C7: the percentage shown for a week is 100 * donePoints / expectedPoints
\* rounded to the nearest integer (halves upward), where expectedPoints is the
\* number of days of that week whose weekday is a weigh day, plus 2 for the
\* week's injection day, and donePoints is the number of those weigh days with
\* a weight record, plus 2 if the injection day has an injection record; it is
\* 0 when expectedPoints is 0.
C7_PctIsRoundedRatio ==
    out.op = "weekly" =>
       \E expected \in {expectedPointsOf(shownWeek(out.weekOffset))},
          done \in {donePointsOf(shownWeek(out.weekOffset))} :
          /\ out.val.start = thisMonday - 7 * out.weekOffset
          /\ IF expected = 0 THEN out.val.pct = 0
             ELSE /\ 2 * expected * out.val.pct <= 200 * done + expected
                  /\ 200 * done + expected < 2 * expected * (out.val.pct + 1)

\* a week of eight expected points of which an odd number is done, so that the
\* ratio falls on a half and is rounded upward
C7_Witness ==
    /\ out.op = "weekly"
    /\ out.weekOffset = 1
    /\ expectedPointsOf(shownWeek(1)) = 8
    /\ donePointsOf(shownWeek(1)) = 5
    /\ out.val.pct = 63

\* a week in which nothing is expected is shown as 0 percent
C7_WitnessNothingExpected ==
    /\ out.op = "weekly"
    /\ expectedPointsOf(shownWeek(out.weekOffset)) = 0
    /\ weights # {}
    /\ out.val.pct = 0

\* C3 as stated: the percentage is between 0 and 100, and it is 100 iff every
\* expected weigh-in day and the expected injection day of the week shown has
\* a matching record.
C3_AsStated ==
    out.op = "weekly" =>
       /\ 0 <= out.val.pct /\ out.val.pct <= 100
       /\ (out.val.pct = 100) <=>
             /\ expectedWeighDays(shownWeek(out.weekOffset)) \subseteq weightKeysNow
             /\ expectedInjectionDays(shownWeek(out.weekOffset)) \subseteq injectionKeysNow

\* the weeks, counted back from the current one, whose injection day has an
\* injection record
weeksWithInjection ==
    {i \in 0..(DefaultMaxWeeks - 1) :
        expectedInjectionDays(shownWeek(i)) \cap injectionKeysNow # {}}

\* C9: countStreakInjections is the number of consecutive Monday-to-Sunday
\* weeks, counted back from the current week and at most 52, whose day of the
\* configured injection weekday has an injection record; the count stops at
\* the first week without one.
C9_StreakIsRunOfWeeks ==
    out.op = "weekly" =>
       \E done \in {weeksWithInjection} :
          out.val.streakInjections =
             Cardinality({i \in 0..(DefaultMaxWeeks - 1) : \A j \in 0..i : j \in done})

\* a streak of weeks that stops at a week without an injection on its injection
\* day, although that week has an injection on another day and older weeks
\* have theirs
C9_Witness ==
    /\ out.op = "weekly"
    /\ out.val.streakInjections >= 1
    /\ \E i \in 1..MaxWeekOffset :
          /\ i \notin weeksWithInjection
          /\ shownWeek(i) \cap injectionKeysNow # {}
          /\ \A j \in 0..(i - 1) : j \in weeksWithInjection
          /\ i + 1 \in weeksWithInjection

\* the count ends at 52 weeks although older weeks have their injection too
C9_WitnessMaxWeeks ==
    /\ out.op = "weekly"
    /\ out.val.streakInjections = DefaultMaxWeeks
    /\ \E d \in injectionKeysNow : d < thisMonday - 7 * (DefaultMaxWeeks - 1)

----------------------------------------------------------------------------
(* Claims about the weight deltas *)

\* the weight records taken h days or more before the record last
atLeastDaysBefore(last, h) ==
    {w \in weights : w.dateTimeISO <= last.dateTimeISO - h * MinutesPerDay}

\* delta is the difference between last and the latest of the records taken
\* h days or more before it, and null when there is none
isDeltaOver(delta, last, h) ==
    \E eligible \in {atLeastDaysBefore(last, h)} :
       IF eligible = {} THEN delta = None
       ELSE \E c \in eligible :
               /\ \A e \in eligible : e.dateTimeISO <= c.dateTimeISO
               /\ delta = Some(last.weightKg - c.weightKg)

\* C2: for a non-empty list of weight records sorted latest first and each
\* horizon h of 7, 14 and 30 days, computeWeightDeltas returns the weight of
\* the first record minus the weight of the record with the greatest timestamp
\* at or before (its timestamp - h days), a record exactly h days before being
\* eligible, and null when no record is that old.
C2_DeltaFromClosestAtOrBefore ==
    (out.op = "deltas" /\ weights # {}) =>
       /\ out.val.last # None
       /\ out.val.last[1] \in weights
       /\ \A w \in weights : w.dateTimeISO <= out.val.last[1].dateTimeISO
       /\ isDeltaOver(out.val.d7, out.val.last[1], 7)
       /\ isDeltaOver(out.val.d14, out.val.last[1], 14)
       /\ isDeltaOver(out.val.d30, out.val.last[1], 30)

\* samples at days 0, -5, -9 and -20: d7 comes from the sample of day -9
C2_Witness ==
    /\ out.op = "deltas"
    /\ weights = {weightSample(x) : x \in {<<0, 0, 800>>, <<-5, 0, 795>>,
                                            <<-9, 0, 788>>, <<-20, 0, 780>>}}
    /\ out.val.d7 = Some(800 - 788)

\* 80.0 kg at day 0, 79.0 kg 7 days earlier, 78.5 kg 14 days earlier
C2_WitnessExactHorizons ==
    /\ out.op = "deltas"
    /\ weights = {weightSample(x) : x \in {<<0, 0, 800>>, <<-7, 0, 790>>, <<-14, 0, 785>>}}
    /\ out.val.d7 = Some(10)
    /\ out.val.d14 = Some(15)
    /\ out.val.d30 = None

----------------------------------------------------------------------------
(* Claims about the insights *)

hasDanger(items) == \E i \in 1..Len(items) : items[i].kind = "danger"

highNausea(i) == i.symptoms.nausea >= N(7)

\* the pairs of injections no third injection is later than
latestTwo ==
    {pair \in injections \X injections :
        /\ pair[1] # pair[2]
        /\ pair[1].dateTimeISO >= pair[2].dateTimeISO
        /\ \A i \in injections \ {pair[1], pair[2]} : i.dateTimeISO <= pair[2].dateTimeISO}

\* C6: buildLocalInsights emits the 'danger' item of the recurring-high-symptom
\* rule iff there are at least two injections and the two with the latest
\* timestamps both have a nausea score of 7 or more (where several injections
\* share a timestamp, any two that no third is later than); older injections
\* have no influence.
C6_DangerIffTwoLatestHigh ==
    out.op = "insights" =>
       /\ hasDanger(out.val) =>
             \E pair \in latestTwo : highNausea(pair[1]) /\ highNausea(pair[2])
       /\ ( /\ Cardinality(injections) >= 2
            /\ \A pair \in latestTwo : highNausea(pair[1]) /\ highNausea(pair[2]) )
             => hasDanger(out.val)

\* nausea 8, 9, 3 from the latest injection back: the rule fires
C6_Witness ==
    /\ out.op = "insights"
    /\ injections = {injectionSample(x) : x \in {<<2, 8>>, <<-5, 9>>, <<-14, 3>>}}
    /\ hasDanger(out.val)

\* nausea 8, 3, 9 from the latest injection back: the rule does not fire
C6_WitnessOlderIgnored ==
    /\ out.op = "insights"
    /\ injections = {injectionSample(x) : x \in {<<2, 8>>, <<-5, 3>>, <<-14, 9>>}}
    /\ ~hasDanger(out.val)

\* the titles of the items of a list, in its order
titlesOf(items) == [i \in 1..Len(items) |-> items[i].title]

\* rule 1 on the store: six or more weigh-ins in the last 14 days, less than
\* 0.3 kg apart
plateauNow ==
    LET recent == {w \in weights : w.dateTimeISO >= clock - 14 * MinutesPerDay}
    IN /\ Cardinality(recent) >= 6
       /\ \A v, w \in recent : v.weightKg - w.weightKg < 3

\* a, b, c follow one another among the weigh-ins of the store
consecutive(a, b, c) ==
    /\ a.dateTimeISO < b.dateTimeISO
    /\ b.dateTimeISO < c.dateTimeISO
    /\ \A w \in weights \ {a, b, c} :
          w.dateTimeISO < a.dateTimeISO \/ w.dateTimeISO > c.dateTimeISO

\* rule 2 on the store
reboundNow ==
    \E a, b, c \in weights :
        /\ consecutive(a, b, c)
        /\ b.dateTimeISO - a.dateTimeISO <= 48 * 60
        /\ b.weightKg - a.weightKg > 10
        /\ c.dateTimeISO - b.dateTimeISO <= 72 * 60
        /\ c.weightKg - a.weightKg <= 3
        /\ a.weightKg - c.weightKg <= 3

\* the days of the current Monday-start week whose weekday is a weigh-in day
weighDaysThisWeek ==
    LET monday == CHOOSE d \in (today - 6)..today : getDay(addDays(0, d)) = 1
    IN {d \in monday..(monday + 6) :
          \E w \in settings.weighDaysOfWeek : w = N(getDay(addDays(0, d)))}

\* rule 3 on the store
missedNow ==
    Cardinality(weighDaysThisWeek)
      - Cardinality({d \in weighDaysThisWeek :
                        \E w \in weights : getLocalDateKey(w.dateTimeISO) = d}) >= 2

\* rule 4 on the store: the latest injection is not on the injection weekday
mismatchNow ==
    \E i \in injections :
        /\ \A o \in injections : o.dateTimeISO <= i.dateTimeISO
        /\ N(getDay(i.dateTimeISO)) # settings.injectionDayOfWeek

\* rule 5 on the store: the two latest injections have nausea of 7 or more
highSymptomNow ==
    /\ Cardinality(injections) >= 2
    /\ \A pair \in latestTwo : highNausea(pair[1]) /\ highNausea(pair[2])

\* the titles of the rules that fire, in the order of the rules
firedTitles ==
    (IF plateauNow THEN <<"Possivel plato">> ELSE <<>>)
      \o (IF reboundNow THEN <<"Oscilacao compativel com retencao">> ELSE <<>>)
      \o (IF missedNow THEN <<"Rotina de pesagem">> ELSE <<>>)
      \o (IF mismatchNow THEN <<"Irregularidade de agenda">> ELSE <<>>)
      \o (IF highSymptomNow THEN <<"Nausea alta recorrente">> ELSE <<>>)

\* C21: buildLocalInsights returns one item for each of the five rules that
\* fires, whichever others fire, in the order plateau, rebound, missed
\* weigh-ins, schedule mismatch, recurring high symptom; the list is never
\* empty, and the 'ok' item is in it iff no rule fires, and is then alone.
C21_OneItemPerFiredRule ==
    out.op = "insights" =>
        /\ Len(out.val) >= 1
        /\ firedTitles # <<>> =>
              /\ titlesOf(out.val) = firedTitles
              /\ \A i \in 1..Len(out.val) : out.val[i].kind # "ok"
        /\ firedTitles = <<>> =>
              /\ Len(out.val) = 1
              /\ out.val[1].kind = "ok"

\* all five rules fire at once
C21_Witness ==
    /\ out.op = "insights"
    /\ Len(out.val) = 5
    /\ Len(firedTitles) = 5

\* no rule fires on a store that holds records
C21_WitnessNoAlerts ==
    /\ out.op = "insights"
    /\ weights # {}
    /\ injections # {}
    /\ firedTitles = <<>>
    /\ titlesOf(out.val) = <<"Sem alertas por regras locais">>

\* C22: the 'warn' item of the missed-weigh-ins rule is in the list iff, of the
\* 7 days of the current Monday-start week, the days whose weekday is in the
\* weigh-day set are at least 2 more than those of them that have a weight
\* record.
C22_MissedIffTwoOrMore ==
    out.op = "insights" =>
        ( (\E i \in 1..Len(out.val) :
              out.val[i].title = "Rotina de pesagem" /\ out.val[i].kind = "warn")
          <=> missedNow )

\* exactly two of three expected weigh-ins are missing: the rule warns
C22_Witness ==
    /\ out.op = "insights"
    /\ Cardinality(weighDaysThisWeek) = 3
    /\ Cardinality({d \in weighDaysThisWeek :
                       \E w \in weights : getLocalDateKey(w.dateTimeISO) = d}) = 1
    /\ \E i \in 1..Len(out.val) : out.val[i].title = "Rotina de pesagem"

\* one of three expected weigh-ins is missing: the rule is silent
C22_WitnessOneMissing ==
    /\ out.op = "insights"
    /\ Cardinality(weighDaysThisWeek) = 3
    /\ Cardinality({d \in weighDaysThisWeek :
                       \E w \in weights : getLocalDateKey(w.dateTimeISO) = d}) = 2
    /\ \A i \in 1..Len(out.val) : out.val[i].title # "Rotina de pesagem"

\* the days of the current Monday-start week that fall on the injection weekday
injectionDaysThisWeek ==
    {d \in weekOf(0) : N(getDay(addDays(0, d))) = settings.injectionDayOfWeek}

\* C29: when the injection day of the current Monday-start week has no
\* injection record, countStreakInjections is 0 whatever the earlier weeks
\* hold, also when that day is still to come; and when today is a scheduled
\* weigh-in day without a weight record, countStreakWeights is 0.
C29_OpenDayBreaksStreak ==
    out.op = "weekly" =>
        /\ (\A d \in injectionDaysThisWeek :
                \A i \in injections : getLocalDateKey(i.dateTimeISO) # d)
             => out.val.streakInjections = 0
        /\ ( /\ \E w \in settings.weighDaysOfWeek : w = N(getDay(clock))
             /\ \A w \in weights : getLocalDateKey(w.dateTimeISO) # today )
             => out.val.streakWeights = 0

\* a Monday: the Saturday of the week is to come and has no injection, the
\* Saturdays of the weeks before all have one, and both streaks are 0
C29_Witness ==
    /\ out.op = "weekly"
    /\ \E d \in injectionDaysThisWeek : d > today
    /\ \A d \in injectionDaysThisWeek :
          /\ \A i \in injections : getLocalDateKey(i.dateTimeISO) # d
          /\ \E i \in injections : getLocalDateKey(i.dateTimeISO) = d - 7
          /\ \E i \in injections : getLocalDateKey(i.dateTimeISO) = d - 14
    /\ out.val.streakInjections = 0
    /\ \E w \in settings.weighDaysOfWeek : w = N(getDay(clock))
    /\ weights # {}
    /\ out.val.streakWeights = 0

\* the days of the period reported, and whether a day has a record
reportedDays == (today - out.rangeDays + 1)..today
weighedOn(d) == \E w \in weights : getLocalDateKey(w.dateTimeISO) = d
injectedOn(d) == \E i \in injections : getLocalDateKey(i.dateTimeISO) = d

\* C28: computeScheduleAdherenceForRange returns pct = 100 only when every
\* expected weigh-in and injection of the period is done, and pct = 0 only
\* when nothing expected is done or nothing is expected.
C28_AsStated ==
    out.op = "adherence" =>
        /\ out.val.pct = 100 =>
              /\ out.val.donePoints = out.val.expectedPoints
              /\ \A d \in reportedDays :
                    /\ isExpectedWeighDay(d) => weighedOn(d)
                    /\ isExpectedInjectionDay(d) => injectedOn(d)
        /\ out.val.pct = 0 =>
              \/ out.val.expectedPoints = 0
              \/ /\ out.val.donePoints = 0
                 /\ \A d \in reportedDays :
                       /\ isExpectedWeighDay(d) => ~weighedOn(d)
                       /\ isExpectedInjectionDay(d) => ~injectedOn(d)

\* the data of the stores as a backup holds them
dataNow ==
    [ injections |-> byTime(injections), weights |-> byTime(weights),
      measures |-> byDate(measures), settings |-> getSettings(settings) ]

\* a step of createAutoBackup leaves the latest five of the backups stored
\* before and the new one, the new one among them
C30_CreateKeepsLatestFive ==
    out'.op = "createAutoBackup" =>
        LET all == autoBackups \cup {out'.val}
        IN /\ autoBackups' \subseteq all
           /\ out'.val \in autoBackups'
           /\ Cardinality(autoBackups') = Min(KeptAutoBackups, Cardinality(all))
           /\ \A kept \in autoBackups', dropped \in all \ autoBackups' :
                 laterThan(kept, dropped)

\* a step of a confirmed restoreAutoBackup stores a new 'pre-restore' backup
\* that holds the data of before the step, and keeps the latest five
C30_RestoreBacksUpFirst ==
    (out'.op = "restoreAutoBackup" /\ out'.proceed) =>
        /\ \E b \in autoBackups' \ autoBackups :
              /\ b.reason = "pre-restore"
              /\ b.data = dataNow
              /\ \A o \in autoBackups : laterThan(b, o)
              /\ \A dropped \in autoBackups \ autoBackups', kept \in autoBackups' :
                    laterThan(kept, dropped)
        /\ Cardinality(autoBackups') <= KeptAutoBackups

C30_WitnessTrimmed ==
    /\ out.op = "createAutoBackup"
    /\ out.val.timestamp = <<HHmm(12, 1), 3>>
    /\ Cardinality(autoBackups) = KeptAutoBackups
    /\ \A b \in autoBackups : b.timestamp # <<HHmm(12, 0), 1>>

\* every record of before is in the store after, as it was or as a record
\* of the list with its id
keptOrMerged(before, after, list) ==
    \A r \in before :
        \/ r \in after
        \/ /\ \E x \in after : x.id = r.id
           /\ \E i \in DOMAIN list : "id" \in DOMAIN list[i] /\ list[i].id = r.id

\* C24: restoreFromFile deletes no record of the store: every injection,
\* weigh-in and measurement present before the restore is present after it,
\* and the records of the backup are added or merged by id.
C24_AsStated ==
    [][(out'.op = "restoreFromFile" /\ out'.proceed) =>
          /\ keptOrMerged(injections, injections', out'.file.injections)
          /\ keptOrMerged(weights, weights', out'.file.weights)
          /\ keptOrMerged(measures, measures', out'.file.measures)
          /\ Cardinality(injections') >= Len(out'.file.injections)
          /\ Cardinality(weights') >= Len(out'.file.weights)
          /\ Cardinality(measures') >= Len(out'.file.measures)]_vars

\* C27: saveSettings(partial) changes only the fields its argument names:
\* when it completes, every other field of the settings stored holds the
\* value it held, also the value another saveSettings call has stored in
\* the meantime.
C27_AsStated ==
    [][out'.op = "saveSettings" =>
          \A f \in SettingsFields \ DOMAIN out'.input : settings'[f] = settings[f]]_vars

\* the three record stores
RecordStores == {"injections", "weights", "measures"}

\* C25: a tick of the checklist ticker recomputes only the dashboard
\* checklist and reads nothing of the record store, and never more than one
\* interval is set, however often startChecklistTicker is called.
C25_AsStated ==
    /\ Cardinality(ticker.intervals) <= 1
    /\ render.pc # "idle" =>
          /\ render.called = "renderDashboardChecklist"
          /\ render.reads \cap (RecordStores \cup {"settings"}) = {}

\* the states of the store a render can meet
RenderSnapshots ==
    { [settings |-> getSettings(cleanSettings(DEFAULTS, partial)),
       records |-> [weights |-> {}, injections |-> {}, measures |-> ms]] :
         partial \in TickerSettingsInputs,
         ms \in SUBSET {normalizeMeasures(x) : x \in TickerMeasures} }

\* C26: the today list, the overdue list and the upcoming list of one
\* renderDashboardChecklist are those of one and the same state of the
\* records and the settings, whatever is saved while it runs.
C26_AsStated ==
    out.op = "renderDashboardChecklist" =>
        \E snap \in RenderSnapshots :
            LET c == cacheOfRecords(snap.records)
            IN /\ out.todayItems
                    = buildChecklistForDate(startOfDay(out.n), c, snap.settings, out.n)
               /\ out.overdueItems
                    = sortByDateKeyDesc(overdueFrom(1, 7, startOfDay(clock), c, snap.settings))
               /\ out.upcoming = upcomingFrom(1, 7, startOfDay(clock), c, snap.settings)

\* C23: buildLocalInsights, buildChecklistForDate, buildOverdueChecklist and
\* the streak and adherence computations leave the lists and the settings
\* they are given as they were, contents and order, and write nothing to
\* the store.
C23_ArgumentsAndStoreUntouched ==
    /\ [](out.op = "computation" => out.left = out.given)
    /\ [][out'.op = "computation" =>
            /\ weights' = weights /\ injections' = injections
            /\ measures' = measures /\ settings' = settings]_vars

\* buildLocalInsights has returned; the lists it was given are in an order
\* none of its sorts would leave them in
C23_Witness ==
    /\ out.op = "computation" /\ out.fn = "buildLocalInsights"
    /\ Len(out.given.weights) >= 2 /\ Len(out.given.injections) >= 2
    /\ out.given.weights # sortByDateTimeAsc(out.given.weights)
    /\ out.given.injections # sortByDateTimeDesc(out.given.injections)
    /\ out.left = out.given

\* buildOverdueChecklist has returned late items of a store with measurements
C23_WitnessOverdue ==
    /\ out.op = "computation" /\ out.fn = "buildOverdueChecklist"
    /\ Len(out.val) >= 1
    /\ Len(out.given.measures) >= 2
    /\ out.given.measures # sortByDateDesc(out.given.measures)
    /\ out.left = out.given

====
